---- MODULE Spec2Model ----
(***************************************************************************)
(* Browser-side scripts of the PDF extraction front end:                   *)
(*   StatusUpdater   (core/static/js/tests/column_definition.test.js)      *)
(*   JobProgress     (core/static/js/job-progress.js)                      *)
(*   JobStatusBanner (unnamed/part_002)                                    *)
(*   Column editor   (core/static/js/column-definition.js)                 *)
(* Every handler (a public method call, a timer callback, the settlement   *)
(* of a fetch promise) runs to completion on the single event loop, so     *)
(* each is one atomic action.  The pollers and the editor are separate     *)
(* instances that share no field; a behaviour follows the one mounted.     *)
(* A StatusUpdater is followed as StatusUpdater with overlapping poll       *)
(* chains and failing requests, as StatusDisplay with one poll chain,      *)
(* answers that carry the rendered fields and the user's actions on the    *)
(* alerts, and (RenderSpec) as StatusRender with answers that carry every  *)
(* status, the texts of processing_details and the counts.  The column     *)
(* editor is followed by EditorSpec.                                       *)
(***************************************************************************)
EXTENDS Integers, Sequences, FiniteSets, TLC

VARIABLES
    mounted,          \* which poller instance the behaviour follows
    \* ---- StatusUpdater
    suOptions,        \* this.options: pollInterval, maxRetries
    pollTimer,        \* this.pollTimer: null, a pending timeout, or the stale id of a fired one
    currentJobId,     \* this.currentJobId ("" is null)
    retryCount,       \* this.retryCount
    lastStatus,       \* this.lastStatus: the payload rendered last
    processingError,  \* the #processing-error element: display and text
    suDisplay,        \* the progress bar, the counters, the badge, the step
                      \* indicators, the truncation alert, the download buttons
    suContinues,      \* continue-processing requests in flight
    suFetches,        \* status requests in flight, per job id of their URL
    suLeaked,         \* pending timeouts whose id this.pollTimer no longer holds
    suLast,           \* the handler that ran last, what it armed and fetched
    suHist,           \* history of the run (read by the properties only)
    \* ---- JobProgress
    jpTimer,          \* this.timer: null or the interval
    jpIsActive,       \* this.isActive
    jpPollCount,      \* this.pollCount
    jpLastStatus,     \* this.lastStatus ("none" is null)
    jpLastUpdated,    \* this.lastUpdated ("none" is null)
    jpDisplay,        \* the status element and the progress bar class
    jpPhases,         \* the phase elements of the page, their state class, the phase shown
    jpFetches,        \* status requests in flight
    jpLast,           \* the handler that ran last, its input, the callbacks it invoked
    \* ---- JobStatusBanner
    jbOptions,        \* this.options: maxTrackedJobs
    jbStorage,        \* the localStorage record jobStatusBanner
    trackedJobs,      \* this.trackedJobs, most recent first
    activeBanner,     \* this.activeBanner (NoBanner is null)
    bannerShown,      \* the banner element carries the class active
    jbPollTimer,      \* this.pollTimer: null or the interval
    jbInitialized,    \* this.initialized
    jbFetches,        \* requests in flight: the listing, or the status of a job
    jbHideTimers,     \* pending auto-hide timeouts, per job id they were armed for
    jbLast,           \* the handler that ran last, its input, the request it issued
    jbHist,           \* history of the instance (read by the properties only)
    jbClosed,         \* the job whose banner the close button last closed ("" none)
    \* ---- Column editor
    cePage,           \* the document: the token elements, window.generatedPrompt
    ceDocument,       \* loaded, or unloading after location.reload()
    ceRows,           \* the rows of the columns table, by data-column-id
    ceForm,           \* the fields of #column-form
    cePrompt,         \* the value of #generated-prompt
    ceVariables,      \* the values of the three variable inputs of the prompt
    ceEditing,        \* the row whose Edit button opened the form ("" none)
    ceRequests,       \* the fetches in flight
    ceLast            \* the handler that ran last and what it did

suVars == <<suOptions, pollTimer, currentJobId, retryCount, lastStatus,
            processingError, suDisplay, suContinues, suFetches, suLeaked,
            suLast, suHist>>

jpVars == <<jpTimer, jpIsActive, jpPollCount, jpLastStatus, jpLastUpdated,
            jpDisplay, jpPhases, jpFetches, jpLast>>

jbVars == <<jbOptions, jbStorage, trackedJobs, activeBanner, bannerShown,
            jbPollTimer, jbInitialized, jbFetches, jbHideTimers, jbLast, jbHist,
            jbClosed>>

ceVars == <<cePage, ceDocument, ceRows, ceForm, cePrompt, ceVariables, ceEditing,
           ceRequests,
            ceLast>>

vars == <<mounted, suVars, jpVars, jbVars, ceVars>>

\* what the handlers of one poller leave alone
notSU == <<mounted, jpVars, jbVars, ceVars>>
notJP == <<mounted, suVars, jbVars, ceVars>>
notJB == <<mounted, suVars, jpVars, ceVars>>
notCE == <<mounted, suVars, jpVars, jbVars>>

----------------------------------------------------------------------------
(* Bounds of the model *)

\* poll chains (requests in flight plus pending timeouts) one StatusUpdater may have
MaxChains == 2

\* requests one JobProgress may have in flight, and the polls it may make
JPMaxInFlight == 2
JPMaxPolls == 12

\* requests one JobStatusBanner may have in flight, and its pending hide timeouts
JBMaxInFlight == 2
JBMaxHideTimers == 2

\* continue-processing requests one StatusUpdater may have in flight
MaxContinues == 1

\* requests the column editor may have in flight
CEMaxInFlight == 2

(* Program constants *)
DefaultPollInterval == 2000
DefaultMaxRetries == 5
MaxBackoff == 30000

JobIds == {"a", "b"}

\* Job Status enum of the status endpoint
Statuses == {"pending", "in_progress", "processing", "waiting", "extracting",
             "initializing", "completed", "error", "failed", "cancelled"}

\* the statuses the specification calls terminal
TerminalStatuses == {"completed", "error", "failed", "cancelled"}

Min(a, b) == IF a < b THEN a ELSE b

RECURSIVE Pow2(_)
Pow2(k) == IF k = 0 THEN 1 ELSE 2 * Pow2(k - 1)

----------------------------------------------------------------------------
(* StatusUpdater *)

\* constructor options: the defaults, and overrides passed by a caller
SUOptionChoices ==
    { [pollInterval |-> DefaultPollInterval, maxRetries |-> DefaultMaxRetries],
      [pollInterval |-> DefaultPollInterval, maxRetries |-> DefaultMaxRetries + 1],
      [pollInterval |-> 3000, maxRetries |-> 2] }

\* a status payload: status at top level, or nested under job, and the fields of
\* the status data (data.job || data): the error text, progress_percent,
\* is_truncated, total_case_count, processed_count, total_count (0 also stands
\* for an absent count: both are falsy), processing_details (the keywords that
\* occur in the text; {} also stands for an absent text) and current_phase
\* ("" is absent)
SUPayload(s, j, e) ==
    [status |-> s, job |-> j, error |-> e, progress_percent |-> 0,
     is_truncated |-> FALSE, total_case_count |-> 0, processed_count |-> 0,
     total_count |-> 0, processing_details |-> {}, current_phase |-> ""]

\* the answers the status endpoint gives in the model
SUPayloads ==
    { SUPayload(s, "none", "") : s \in {"pending", "processing"} \cup TerminalStatuses }
    \cup { SUPayload("failed", "none", "boom") }
    \cup { SUPayload("none", s, "") : s \in {"processing", "completed"} }
    \cup { SUPayload("none", "none", "") }

\* this.phases, also the order of the step indicators in the page
phases == <<"initializing", "preparing", "sending", "extracting", "processing",
            "completed">>

\* the keywords the texts of processing_details contain in the model, such as
\* "preparing documents for processing"
DetailChoices ==
    { {"preparing"}, {"sending"}, {"extraction"}, {"completed"},
      {"preparing", "processing"} }

\* the answers that carry the rendered fields
RenderPayloads ==
    LET base == [SUPayload("processing", "none", "") EXCEPT !.progress_percent = 50]
    IN  { base,
          [base EXCEPT !.progress_percent = -5],
          [base EXCEPT !.progress_percent = 150],
          [base EXCEPT !.is_truncated = TRUE],
          [base EXCEPT !.total_case_count = 12],
          [base EXCEPT !.error = "boom"],
          [base EXCEPT !.status = "failed"],
          [base EXCEPT !.status = "completed", !.progress_percent = 100] }

\* the answers that carry every status, the texts of processing_details and
\* the counts
BadgePayloads ==
    LET base == [SUPayload("processing", "none", "") EXCEPT !.progress_percent = 50]
    IN  RenderPayloads
        \cup { [base EXCEPT !.status = s] : s \in Statuses }
        \cup { [base EXCEPT !.processing_details = d] : d \in DetailChoices }
        \cup { [base EXCEPT !.progress_percent = 45, !.processed_count = 2,
                            !.total_count = 5],
               [base EXCEPT !.status = "completed", !.progress_percent = 100,
                            !.processed_count = 5, !.total_count = 5,
                            !.total_case_count = 12],
               [base EXCEPT !.status = "completed",
                            !.processing_details = {"sending"}],
               [base EXCEPT !.current_phase = "sending"] }

\* the instances of StatusUpdater a behaviour may follow
SUSlices == {"StatusUpdater", "StatusDisplay", "StatusRender"}

\* the instances followed with one poll chain and the user's actions
SUDisplaySlices == {"StatusDisplay", "StatusRender"}

\* the answers of the status endpoint for the instance followed
SUAnswers ==
    CASE mounted = "StatusDisplay" -> RenderPayloads
      [] mounted = "StatusRender" -> BadgePayloads
      [] OTHER -> SUPayloads

\* the job ids of the page of the instance followed (the value of #job-id)
SUJobs == IF mounted = "StatusRender" THEN {"a"} ELSE JobIds

\* the poll chains the page lets the instance followed have
SUChains == IF mounted \in SUDisplaySlices THEN 1 ELSE MaxChains

initialStatus == SUPayload("initializing", "none", "")

NoPayload == SUPayload("none", "none", "")

FatalMessage == "Failed to connect to server. Please refresh the page to try again."

NullTimer == [st |-> "null", delay |-> 0]

SUInFlight == suFetches["a"] + suFetches["b"]

SUPendingTimers == suLeaked + (IF pollTimer.st = "pending" THEN 1 ELSE 0)

\* statusData = data.job || data
StatusData(data) == IF data.job # "none" THEN data.job ELSE data.status

shouldContinuePolling(data) ==
    IF data.status # "none"
    THEN data.status \notin {"completed", "failed", "error"}
    ELSE IF data.job # "none"
         THEN data.job \notin {"completed", "failed", "error"}
         ELSE TRUE

\* variant: the delay without the 30000 ms cap
BackoffUncapped(k) == suOptions.pollInterval * Pow2(k)

\* backoffTime = Math.min(30000, pollInterval * 2^retryCount)
Backoff(k) == Min(MaxBackoff, suOptions.pollInterval * Pow2(k))

\* variant: an error shown once is never hidden
checkForErrorsSticky(element, data) ==
    IF data.error # "" \/ StatusData(data) \in {"error", "failed"}
    THEN [display |-> "block",
          text |-> IF data.error # "" THEN data.error
                   ELSE "An error occurred during processing"]
    ELSE element

\* checkForErrors(statusData) on the #processing-error element
checkForErrors(element, data) ==
    IF data.error # "" \/ StatusData(data) \in {"error", "failed"}
    THEN [display |-> "block",
          text |-> IF data.error # "" THEN data.error
                   ELSE "An error occurred during processing"]
    ELSE [display |-> "none", text |-> element.text]

\* updateProgressBar(statusData): width (in percent) and aria-valuenow of the
\* bar, the texts of #processed-count and #total-count
updateProgressBar(display, data) ==
    [display EXCEPT !.barWidth = data.progress_percent,
                    !.ariaValueNow = data.progress_percent,
                    !.processedCount = data.processed_count,
                    !.totalCount = data.total_count]

\* the switch of updateStatusBadge: statusText and badgeClass of a status
badgeOf(status) ==
    CASE status = "pending" -> [text |-> "Pending", class |-> "bg-warning"]
      [] status \in {"in_progress", "processing"} ->
             [text |-> "Processing", class |-> "bg-primary"]
      [] status = "waiting" -> [text |-> "Waiting", class |-> "bg-info"]
      [] status = "extracting" -> [text |-> "Extracting", class |-> "bg-info"]
      [] status = "completed" -> [text |-> "Completed", class |-> "bg-success"]
      [] status \in {"error", "failed"} -> [text |-> "Error", class |-> "bg-danger"]
      [] OTHER -> [text |-> "Unknown", class |-> "bg-secondary"]

\* updateStatusBadge(statusData): text and class list of #processing-status-badge
updateStatusBadge(display, data) ==
    [display EXCEPT !.badgeText = badgeOf(StatusData(data)).text,
                    !.badgeClass = {badgeOf(StatusData(data)).class, "badge"}]

\* processingDetails.includes(word)
includes(details, word) == word \in details

\* updateProcessingPhase(statusData): the value of currentPhase
currentPhase(data) ==
    IF StatusData(data) = "completed" THEN "completed"
    ELSE IF includes(data.processing_details, "extracting")
            \/ includes(data.processing_details, "extraction") THEN "extracting"
    ELSE IF includes(data.processing_details, "processing") THEN "processing"
    ELSE IF includes(data.processing_details, "sending") THEN "sending"
    ELSE IF includes(data.processing_details, "preparing") THEN "preparing"
    ELSE "initializing"

\* the second forEach of updateProcessingPhase from indicator i on: the
\* indicators it adds the class active to
RECURSIVE addActive(_, _, _)
addActive(i, phase, activateRest) ==
    IF i > Len(phases) THEN {}
    ELSE IF phases[i] = phase
         THEN {phases[i]} \cup addActive(i + 1, phase, TRUE)
         ELSE IF activateRest
              THEN addActive(i + 1, phase, activateRest)
              ELSE {phases[i]} \cup addActive(i + 1, phase, activateRest)

\* variant: the class active is removed from no indicator first
stepIndicatorsKeepActive(active, phase) == active \cup addActive(1, phase, FALSE)

\* the two forEach of updateProcessingPhase: the indicators that carry the
\* class active afterwards
stepIndicators(active, phase) ==
    (active \ { phases[i] : i \in 1..Len(phases) }) \cup addActive(1, phase, FALSE)

\* updateProcessingPhase(statusData)
updateProcessingPhase(display, data) ==
    [display EXCEPT !.activeSteps = stepIndicators(@, currentPhase(data))]

\* variant: the download buttons are shown whatever the status
showDownloadButtonsAlways(display, data) ==
    [display EXCEPT !.downloadButtons = "block"]

\* the end of updateStatus: showDownloadButtons() for the status completed
showDownloadButtons(display, data) ==
    IF StatusData(data) = "completed"
    THEN [display EXCEPT !.downloadButtons = "block"]
    ELSE display

\* variant: the count of a status is added to the count shown
updateCaseCountAdds(display, data) ==
    IF data.total_case_count # 0
    THEN [display EXCEPT !.caseCount = @ + data.total_case_count,
                         !.caseCounter = "block"]
    ELSE display

\* updateCaseCount(statusData): the #case-count text and the #case-counter element
updateCaseCount(display, data) ==
    IF data.total_case_count # 0
    THEN [display EXCEPT !.caseCount = data.total_case_count,
                         !.caseCounter = "block"]
    ELSE display

\* variant: the alert follows is_truncated of every status
checkForTruncationFollows(display, data) ==
    [display EXCEPT !.truncationAlert = IF data.is_truncated THEN "block" ELSE "none"]

\* checkForTruncation(statusData) on the #truncation-alert element
checkForTruncation(display, data) ==
    IF data.is_truncated
    THEN [display EXCEPT !.truncationAlert = "block"]
    ELSE display

\* updateStatus(data): the elements afterwards
updateStatus(display, data) ==
    LET bar == updateProgressBar(display, data)
        badge == updateStatusBadge(bar, data)
        cases == updateCaseCount(badge, data)
        phase == updateProcessingPhase(cases, data)
        truncation == checkForTruncation(phase, data)
    IN  showDownloadButtons(truncation, data)

\* the elements as the page is served; #download-buttons belongs to the page
\* template and starts hidden
InitialDisplay ==
    [barWidth |-> 0, ariaValueNow |-> 0, processedCount |-> 0, totalCount |-> 0,
     caseCount |-> 0, caseCounter |-> "none", truncationAlert |-> "none",
     badgeText |-> "Initializing", badgeClass |-> {"badge", "bg-info"},
     activeSteps |-> {"initializing"}, downloadButtons |-> "none"]

\* initializeProgressDisplay(): the elements and #processing-error afterwards;
\* #download-buttons is not among the elements it resets
initializeProgressDisplay(display) ==
    [display |-> [barWidth |-> 0, ariaValueNow |-> 0, processedCount |-> 0,
                  totalCount |-> 0, caseCount |-> 0, caseCounter |-> "none",
                  truncationAlert |-> "none", badgeText |-> "Initializing",
                  badgeClass |-> {"badge", "bg-info"},
                  activeSteps |-> {"initializing"},
                  downloadButtons |-> display.downloadButtons],
     error |-> [display |-> "none", text |-> ""]]

displayError(message) == [display |-> "block", text |-> message]

\* variant: stopPolling leaves this.pollTimer as it is
stopPollingKeepsTimer == pollTimer

\* stopPolling(): the value of this.pollTimer afterwards
stopPollingTimer == NullTimer

\* pending timeouts the instance no longer holds, after one more is armed
LeakedAfterArm == suLeaked + (IF pollTimer.st = "pending" THEN 1 ELSE 0)

Saturate(n, cap) == IF n < cap THEN n ELSE cap

FailRunCap == DefaultMaxRetries + 1 + MaxChains + 1

\* what the last handler did: the delay of the timeout it armed (0: none), the job
\* id of the request it issued ("": none), the retry counter a success cleared
Event(op, armed, fetched, reset) ==
    [op |-> op, armed |-> armed, fetched |-> fetched, reset |-> reset]

SUInit(options) ==
    /\ suOptions = options
    /\ pollTimer = NullTimer
    /\ currentJobId = ""
    /\ retryCount = 0
    /\ lastStatus = NoPayload
    /\ processingError = [display |-> "none", text |-> ""]
    /\ suDisplay = InitialDisplay
    /\ suContinues = 0
    /\ suFetches = [j \in JobIds |-> 0]
    /\ suLeaked = 0
    /\ suLast = Event("new", 0, "", 0)
    /\ suHist = [stopped |-> FALSE, terminal |-> FALSE, starts |-> 0, run |-> 0,
                 failRun |-> 0, delays |-> << >>]

\* startPolling(jobId); jobId "" stands for a missing id
startPolling(jobId) ==
    /\ mounted \in SUSlices
    /\ IF jobId = ""
       THEN /\ suLast' = Event("startPollingNoId", 0, "", 0)
            /\ UNCHANGED <<suOptions, pollTimer, currentJobId, retryCount,
                           lastStatus, processingError, suDisplay, suFetches,
                           suLeaked, suHist>>
       ELSE /\ SUInFlight + suLeaked < SUChains
            /\ pollTimer' = stopPollingTimer
            /\ currentJobId' = jobId
            /\ retryCount' = 0
            /\ lastStatus' = initialStatus
            /\ processingError' =
                   checkForErrors(initializeProgressDisplay(suDisplay).error,
                                  initialStatus)
            /\ suDisplay' =
                   updateStatus(initializeProgressDisplay(suDisplay).display,
                                initialStatus)
            /\ suFetches' = [suFetches EXCEPT ![jobId] = @ + 1]
            /\ suLast' = Event("startPolling", 0, jobId, 0)
            /\ suHist' = [suHist EXCEPT
                             !.stopped = FALSE,
                             !.terminal = FALSE,
                             !.starts = Saturate(@ + 1, 2),
                             !.run = IF suHist.starts = 0 THEN 1 ELSE -1,
                             !.delays = << >>]
            /\ UNCHANGED <<suOptions, suLeaked>>
    /\ UNCHANGED suContinues
    /\ UNCHANGED notSU

\* stopPolling()
stopPolling ==
    /\ mounted \in SUSlices
    /\ pollTimer' = stopPollingTimer
    /\ suLast' = Event("stopPolling", 0, "", 0)
    /\ suHist' = [suHist EXCEPT !.stopped = TRUE]
    /\ UNCHANGED notSU
    /\ UNCHANGED <<suOptions, currentJobId, retryCount, lastStatus,
                   processingError, suDisplay, suContinues, suFetches, suLeaked>>

\* a pending timeout fires: () => this.pollStatus()
\* held: the timeout this.pollTimer refers to; otherwise one it no longer holds
pollTimerFires(held) ==
    /\ mounted \in SUSlices
    /\ IF held
       THEN /\ pollTimer.st = "pending"
            /\ pollTimer' = [st |-> "stale", delay |-> 0]
            /\ UNCHANGED suLeaked
       ELSE /\ suLeaked > 0
            /\ suLeaked' = suLeaked - 1
            /\ UNCHANGED pollTimer
    /\ IF currentJobId = ""
       THEN /\ suLast' = Event("pollStatus", 0, "", 0)
            /\ UNCHANGED <<suFetches, suHist>>
       ELSE /\ suFetches' = [suFetches EXCEPT ![currentJobId] = @ + 1]
            /\ suLast' = Event("pollStatus", 0, currentJobId, 0)
            /\ suHist' = [suHist EXCEPT
                             !.run = IF @ >= 0 THEN @ + 1 ELSE @]
    /\ UNCHANGED notSU
    /\ UNCHANGED <<suOptions, currentJobId, retryCount, lastStatus,
                   processingError, suDisplay, suContinues>>

\* variant: a success leaves the retry counter as it is
retryCountKept == retryCount

\* the retry counter after a successful fetch
retryCountOnSuccess == 0

\* fetch(url) of a request for job j resolves with a 2xx answer carrying data
pollSucceeds(j, data) ==
    /\ mounted \in SUSlices
    /\ suFetches[j] > 0
    /\ suFetches' = [suFetches EXCEPT ![j] = @ - 1]
    /\ retryCount' = retryCountOnSuccess
    /\ lastStatus' = data
    /\ processingError' = checkForErrors(processingError, data)
    /\ suDisplay' = updateStatus(suDisplay, data)
    /\ IF shouldContinuePolling(data)
       THEN /\ pollTimer' = [st |-> "pending", delay |-> suOptions.pollInterval]
            /\ suLeaked' = LeakedAfterArm
            /\ suLast' = Event("success", suOptions.pollInterval, "", retryCount)
       ELSE /\ suLast' = Event("success", 0, "", retryCount)
            /\ UNCHANGED <<pollTimer, suLeaked>>
    /\ suHist' = [suHist EXCEPT
                     !.terminal = @ \/ data.status \in TerminalStatuses,
                     !.run = -1, !.failRun = 0, !.delays = << >>]
    /\ UNCHANGED notSU
    /\ UNCHANGED <<suOptions, currentJobId, suContinues>>

\* variant: gives up one failure later
GivesUpLate(n) == n > suOptions.maxRetries

\* the test of the catch handler that gives up
GivesUp(n) == n >= suOptions.maxRetries

\* fetch(url) of a request for job j fails: network error, non-2xx, invalid JSON
pollFails(j, kind) ==
    /\ mounted = "StatusUpdater"
    /\ suFetches[j] > 0
    /\ suFetches' = [suFetches EXCEPT ![j] = @ - 1]
    /\ retryCount' = retryCount + 1
    /\ IF GivesUp(retryCount')
       THEN /\ processingError' = displayError(FatalMessage)
            /\ suLast' = Event("failure", 0, "", 0)
            /\ suHist' = [suHist EXCEPT
                             !.failRun = Saturate(@ + 1, FailRunCap)]
            /\ UNCHANGED <<pollTimer, suLeaked>>
       ELSE /\ pollTimer' = [st |-> "pending", delay |-> Backoff(retryCount')]
            /\ suLeaked' = LeakedAfterArm
            /\ suLast' = Event("failure", Backoff(retryCount'), "", 0)
            /\ suHist' = [suHist EXCEPT
                             !.failRun = Saturate(@ + 1, FailRunCap),
                             !.delays = Append(@, Backoff(retryCount'))]
            /\ UNCHANGED processingError
    /\ UNCHANGED notSU
    /\ UNCHANGED <<suOptions, currentJobId, lastStatus, suDisplay, suContinues>>

\* the dismiss button of the truncation alert
truncationDismissed ==
    /\ mounted \in SUDisplaySlices
    /\ suDisplay.truncationAlert = "block"
    /\ suDisplay' = [suDisplay EXCEPT !.truncationAlert = "none"]
    /\ suLast' = Event("dismiss", 0, "", 0)
    /\ UNCHANGED notSU
    /\ UNCHANGED <<suOptions, pollTimer, currentJobId, retryCount, lastStatus,
                   processingError, suContinues, suFetches, suLeaked, suHist>>

\* handleContinueProcessing(): POST /continue-processing/<currentJobId>/
handleContinueProcessing ==
    /\ mounted \in SUDisplaySlices
    /\ IF currentJobId = ""
       THEN UNCHANGED suContinues
       ELSE /\ suContinues < MaxContinues
            /\ suContinues' = suContinues + 1
    /\ suLast' = Event("continue", 0, "", 0)
    /\ UNCHANGED notSU
    /\ UNCHANGED <<suOptions, pollTimer, currentJobId, retryCount, lastStatus,
                   processingError, suDisplay, suFetches, suLeaked, suHist>>

\* the continue-processing request settles: data.success, data.error, or a failure
continueSettles(outcome) ==
    /\ mounted \in SUDisplaySlices
    /\ suContinues > 0
    /\ suContinues' = suContinues - 1
    /\ IF outcome = "success"
       THEN /\ suDisplay' = [suDisplay EXCEPT !.truncationAlert = "none"]
            /\ suLast' = Event("continueSuccess", 0, "", 0)
            /\ UNCHANGED processingError
       ELSE /\ processingError' =
                   displayError(IF outcome = "refused"
                                THEN "Failed to continue processing."
                                ELSE "Failed to continue processing. Please try again.")
            /\ suLast' = Event("continueFailure", 0, "", 0)
            /\ UNCHANGED suDisplay
    /\ UNCHANGED notSU
    /\ UNCHANGED <<suOptions, pollTimer, currentJobId, retryCount, lastStatus,
                   suFetches, suLeaked, suHist>>

SUNext ==
    \/ \E jobId \in SUJobs \cup {""} : startPolling(jobId)
    \/ stopPolling
    \/ \E held \in BOOLEAN : pollTimerFires(held)
    \/ \E j \in JobIds, data \in SUAnswers : pollSucceeds(j, data)
    \/ \E j \in JobIds, kind \in {"network", "http", "json"} : pollFails(j, kind)
    \/ truncationDismissed
    \/ handleContinueProcessing
    \/ \E outcome \in {"success", "refused", "failure"} : continueSettles(outcome)

----------------------------------------------------------------------------
(* JobProgress *)

\* the count of polls above which a failing poll stops the tracking
JPErrorThreshold == 10

\* a status payload: status, the error field ("" when absent), last_updated,
\* progress_percent
JPPayload(s, e) ==
    [status |-> s, error |-> e, last_updated |-> "t1", progress_percent |-> 50]

\* the answers the status endpoint gives in the model
JPPayloads ==
    { JPPayload(s, "") : s \in {"processing"} \cup TerminalStatuses }
    \cup { JPPayload("failed", "boom"), JPPayload("processing", "boom") }
    \cup { [JPPayload("processing", "") EXCEPT !.progress_percent = p] : p \in {-5, 150} }

NoJPPayload ==
    [status |-> "none", error |-> "", last_updated |-> "none", progress_percent |-> 0]

JPEvent(op, data, calls) == [op |-> op, data |-> data, calls |-> calls]

\* updateDisplay(data): the status text and the class of the progress bar
updateDisplay(data) ==
    [statusText |-> IF data.status \in {"error", "failed"}
                    THEN <<"Failed", IF data.error # "" THEN data.error
                                     ELSE "Unknown error">>
                    ELSE <<"Status", data.status>>,
     barClass |-> IF data.status = "completed" THEN "bg-success"
                  ELSE IF data.status \in {"error", "failed"} THEN "bg-danger"
                  ELSE IF data.status = "cancelled" THEN "bg-warning"
                  ELSE "",
     barWidth |-> data.progress_percent,
     ariaValueNow |-> data.progress_percent]

\* stopTracking(): this.timer and this.isActive afterwards
stopTrackingResult ==
    IF ~jpIsActive
    THEN [timer |-> jpTimer, isActive |-> jpIsActive]
    ELSE [timer |-> "null", isActive |-> FALSE]

\* this.elements.phases: the keys in the order Object.entries visits them
JPPhaseNames ==
    <<"initializing", "preparing", "extracting", "processing", "sending",
      "completed">>

\* phaseOrder[name] || 0 of updatePhaseDisplay
phaseOrder(name) ==
    CASE name = "initializing" -> 0
      [] name = "preparing" -> 1
      [] name = "extracting" -> 2
      [] name = "processing" -> 3
      [] name = "sending" -> 4
      [] name = "completed" -> 5
      [] OTHER -> 0

\* updatePhaseDisplay(phase): the state class of every phase element the page
\* has, the other entries of this.elements.phases being null
updatePhaseDisplay(elements, phase) ==
    [name \in elements |->
        IF name = phase THEN "phase-active"
        ELSE IF phaseOrder(name) < phaseOrder(phase) THEN "phase-complete"
        ELSE "phase-pending"]

\* the phase elements found by findElements, with the class the template
\* gives them, before any phase is shown
JPPhasesFound(elements) ==
    [elements |-> elements, classes |-> [name \in elements |-> ""],
     phase |-> "none"]

\* the constructor, on a page that has the phase elements given
JPConstructed(elements) ==
    /\ jpTimer = "null"
    /\ jpIsActive = FALSE
    /\ jpPollCount = 0
    /\ jpLastStatus = "none"
    /\ jpLastUpdated = "none"
    /\ jpDisplay = [statusText |-> <<"Initial", "">>, barClass |-> "",
                    barWidth |-> 0, ariaValueNow |-> 0]
    /\ jpPhases = JPPhasesFound(elements)
    /\ jpFetches = 0
    /\ jpLast = JPEvent("new", NoJPPayload, << >>)

JPInit == JPConstructed({ JPPhaseNames[i] : i \in 1..Len(JPPhaseNames) })

\* startTracking()
startTracking ==
    /\ mounted = "JobProgress"
    /\ IF jpIsActive
       THEN /\ jpLast' = JPEvent("startTrackingIgnored", NoJPPayload, << >>)
            /\ UNCHANGED <<jpTimer, jpIsActive, jpPollCount, jpFetches>>
       ELSE /\ jpFetches < JPMaxInFlight
            /\ jpPollCount < JPMaxPolls
            /\ jpIsActive' = TRUE
            /\ jpPollCount' = jpPollCount + 1
            /\ jpFetches' = jpFetches + 1
            /\ jpTimer' = "interval"
            /\ jpLast' = JPEvent("startTracking", NoJPPayload, << >>)
    /\ UNCHANGED <<jpLastStatus, jpLastUpdated, jpDisplay>>
    /\ UNCHANGED jpPhases
    /\ UNCHANGED notJP

\* stopTracking() called by the page
stopTracking ==
    /\ mounted = "JobProgress"
    /\ jpTimer' = stopTrackingResult.timer
    /\ jpIsActive' = stopTrackingResult.isActive
    /\ jpLast' = JPEvent("stopTracking", NoJPPayload, << >>)
    /\ UNCHANGED <<jpPollCount, jpLastStatus, jpLastUpdated, jpDisplay, jpFetches>>
    /\ UNCHANGED jpPhases
    /\ UNCHANGED notJP

\* the interval fires: () => this.pollStatus()
intervalFires ==
    /\ mounted = "JobProgress"
    /\ jpTimer = "interval"
    /\ jpFetches < JPMaxInFlight
    /\ jpPollCount < JPMaxPolls
    /\ jpPollCount' = jpPollCount + 1
    /\ jpFetches' = jpFetches + 1
    /\ jpLast' = JPEvent("pollStatus", NoJPPayload, << >>)
    /\ UNCHANGED <<jpTimer, jpIsActive, jpLastStatus, jpLastUpdated, jpDisplay>>
    /\ UNCHANGED jpPhases
    /\ UNCHANGED notJP

\* the catch handler of pollStatus, for an error with the given message
JPCatch(data, message) ==
    /\ jpDisplay' = [jpDisplay EXCEPT !.statusText = <<"Error checking status", message>>]
    /\ IF jpPollCount > JPErrorThreshold
       THEN /\ jpTimer' = stopTrackingResult.timer
            /\ jpIsActive' = stopTrackingResult.isActive
       ELSE UNCHANGED <<jpTimer, jpIsActive>>
    /\ jpLast' = JPEvent("response", data, <<"onError">>)
    /\ UNCHANGED <<jpLastStatus, jpLastUpdated>>

\* a request resolves with a 2xx answer carrying data
jpPollSucceeds(data) ==
    /\ mounted = "JobProgress"
    /\ jpFetches > 0
    /\ jpFetches' = jpFetches - 1
    /\ IF data.error # ""
       THEN JPCatch(data, data.error)
       ELSE /\ jpDisplay' = updateDisplay(data)
            /\ jpLastStatus' = data.status
            /\ jpLastUpdated' = data.last_updated
            /\ IF data.status \in {"completed", "error", "failed", "cancelled"}
               THEN /\ jpTimer' = stopTrackingResult.timer
                    /\ jpIsActive' = stopTrackingResult.isActive
                    /\ jpLast' = JPEvent("response", data, <<"onUpdate", "onComplete">>)
               ELSE /\ jpLast' = JPEvent("response", data, <<"onUpdate">>)
                    /\ UNCHANGED <<jpTimer, jpIsActive>>
    /\ UNCHANGED jpPollCount
    /\ UNCHANGED jpPhases
    /\ UNCHANGED notJP

\* a request fails: network error, non-2xx answer, invalid JSON
jpPollFails(kind) ==
    /\ mounted = "JobProgress"
    /\ jpFetches > 0
    /\ jpFetches' = jpFetches - 1
    /\ JPCatch(NoJPPayload, kind)
    /\ UNCHANGED jpPollCount
    /\ UNCHANGED jpPhases
    /\ UNCHANGED notJP

\* the phases updatePhaseDisplay is called with: those of the table and one the
\* table does not have
JPPhaseInputs == { JPPhaseNames[i] : i \in 1..Len(JPPhaseNames) } \cup {"queued"}

\* updatePhaseDisplay(phase) is called
phaseDisplayed(phase) ==
    /\ mounted = "PhaseDisplay"
    /\ jpPhases' = [jpPhases EXCEPT
                        !.classes = updatePhaseDisplay(jpPhases.elements, phase),
                        !.phase = phase]
    /\ jpLast' = JPEvent("updatePhaseDisplay", NoJPPayload, << >>)
    /\ UNCHANGED <<jpTimer, jpIsActive, jpPollCount, jpLastStatus, jpLastUpdated,
                   jpDisplay, jpFetches>>
    /\ UNCHANGED notJP

JPNext ==
    \/ startTracking
    \/ stopTracking
    \/ intervalFires
    \/ \E data \in JPPayloads : jpPollSucceeds(data)
    \/ \E kind \in {"network", "http", "json"} : jpPollFails(kind)

----------------------------------------------------------------------------
(* JobStatusBanner *)

DefaultMaxTrackedJobs == 5

\* job data as the server sends it; completed_at is relative to one hour ago
Job(id, s, c) == [id |-> id, status |-> s, completed_at |-> c]

JobVariants(id) ==
    { Job(id, "processing", "none"), Job(id, "completed", "recent"),
      Job(id, "completed", "old") }

\* the answers of the status endpoint for job id: its data, or data without an id
JBStatusPayloads(id) == JobVariants(id) \cup { Job("", "processing", "none") }

\* the answers of the listing endpoint; an entry may lack the id
JBListings ==
    { << >>,
      << Job("a", "processing", "none") >>,
      << Job("b", "processing", "none") >>,
      << Job("a", "processing", "none"), Job("b", "processing", "none") >>,
      << Job("b", "processing", "none"), Job("a", "processing", "none") >>,
      << Job("", "processing", "none"), Job("a", "processing", "none") >> }

JBOptionChoices == { [maxTrackedJobs |-> m] : m \in {1, DefaultMaxTrackedJobs} }

\* the localStorage item: absent, unparseable (corrupt), a record whose entries
\* make the filter throw (malformed), a record holding trackedJobs, or absent in
\* a storage whose setItem throws (blocked)
Stored(state, list) == [state |-> state, trackedJobs |-> list]

\* what localStorage may hold when the page loads: what an instance with the
\* same options wrote, or what something else left there
JBStoredChoices(options) ==
    { stored \in
        { Stored("absent", << >>), Stored("corrupt", << >>),
          Stored("blocked", << >>),
          Stored("malformed", << Job("a", "processing", "none") >>),
          Stored("record", << Job("a", "completed", "old") >>),
          Stored("record", << Job("b", "completed", "recent"),
                              Job("a", "processing", "none") >>) } :
        Len(stored.trackedJobs) <= options.maxTrackedJobs }

NoBanner == [jobId |-> "", status |-> "", completedTime |-> FALSE]

JBKinds == {"list"} \cup JobIds

JBInFlight == jbFetches["list"] + jbFetches["a"] + jbFetches["b"]

JBPendingHides == jbHideTimers["a"] + jbHideTimers["b"]

RECURSIVE IndexOf(_, _, _)
\* findIndex(job => job.id === id), 1-based; 0 when there is none
IndexOf(list, id, i) ==
    IF i > Len(list) THEN 0
    ELSE IF list[i].id = id THEN i
    ELSE IndexOf(list, id, i + 1)

\* { ...old, ...new }: a field the new data lacks keeps its old value
MergeJob(old, new) ==
    [id |-> new.id, status |-> new.status,
     completed_at |-> IF new.completed_at = "none" THEN old.completed_at
                      ELSE new.completed_at]

\* variant: a new job is prepended and the list is never cut
trackJobNoLimit(list, jobData) ==
    IF jobData.id = "" THEN list
    ELSE LET i == IndexOf(list, jobData.id, 1)
         IN  IF i > 0 THEN [list EXCEPT ![i] = MergeJob(list[i], jobData)]
             ELSE <<jobData>> \o list

\* trackJob(jobData): this.trackedJobs afterwards
trackJob(list, jobData) ==
    IF jobData.id = "" THEN list
    ELSE LET i == IndexOf(list, jobData.id, 1)
         IN  IF i > 0 THEN [list EXCEPT ![i] = MergeJob(list[i], jobData)]
             ELSE LET longer == <<jobData>> \o list
                  IN  IF Len(longer) > jbOptions.maxTrackedJobs
                      THEN SubSeq(longer, 1, jbOptions.maxTrackedJobs)
                      ELSE longer

RECURSIVE trackAll(_, _)
\* data.active_jobs.forEach(job => this.trackJob(job))
trackAll(list, jobs) ==
    IF jobs = << >> THEN list
    ELSE trackAll(trackJob(list, Head(jobs)), Tail(jobs))

\* saveToStorage(): the localStorage item afterwards; the catch handler leaves
\* it alone when setItem throws
saveToStorage(list) ==
    IF jbStorage.state = "blocked" THEN jbStorage ELSE Stored("record", list)

\* variant: the filter keeps every entry
SelectJobsAll(list) == list

RECURSIVE SelectJobs(_)
\* the filter of loadFromStorage: drop completed jobs older than one hour
SelectJobs(list) ==
    IF list = << >> THEN << >>
    ELSE LET job == Head(list)
             keep == \/ job.status # "completed"
                     \/ job.completed_at = "none"
                     \/ job.completed_at = "recent"
         IN  (IF keep THEN <<job>> ELSE << >>) \o SelectJobs(Tail(list))

\* variant: the catch handler leaves this.trackedJobs as the try block set it
loadFromStorageNoReset(stored) ==
    IF stored.state \in {"absent", "corrupt", "blocked"} THEN << >>
    ELSE IF stored.state = "malformed" THEN stored.trackedJobs
    ELSE SelectJobs(stored.trackedJobs)

\* loadFromStorage(): this.trackedJobs afterwards
loadFromStorage(stored) ==
    IF stored.state \in {"absent", "corrupt", "malformed", "blocked"} THEN << >>
    ELSE SelectJobs(stored.trackedJobs)

\* the stored record as a page loaded more than an hour later reads it
Aged(stored) ==
    [stored EXCEPT !.trackedJobs =
        [i \in 1..Len(stored.trackedJobs) |->
            IF stored.trackedJobs[i].completed_at = "recent"
            THEN [stored.trackedJobs[i] EXCEPT !.completed_at = "old"]
            ELSE stored.trackedJobs[i]]]

\* variant: the class active stays on the banner element
hideBannerKeepsClass == [activeBanner |-> NoBanner, bannerShown |-> bannerShown]

\* hideBanner(): this.activeBanner and the class active afterwards
hideBanner == [activeBanner |-> NoBanner, bannerShown |-> FALSE]

\* variant: every cycle calls the listing endpoint
checkActiveJobsLists(list, banner) == "list"

\* checkActiveJobs(): the request it issues
checkActiveJobs(list, banner) ==
    IF Len(list) > 0
    THEN IF banner = NoBanner \/ banner.jobId # list[1].id
         THEN list[1].id
         ELSE banner.jobId
    ELSE "list"

\* what the last handler did: the request it issued ("": none) and the job data
\* it was given
JBEvent(op, fetched, input) == [op |-> op, fetched |-> fetched, input |-> input]

\* per job, since a poll of this instance last saw it not completed: none, seen
\* (a poll has seen it completed), hidden (a hide timeout has hidden its banner)
NewHist == [j \in JobIds |-> "none"]

JBInit(options, stored) ==
    /\ jbOptions = options
    /\ jbStorage = stored
    /\ trackedJobs = loadFromStorage(jbStorage)
    /\ activeBanner = NoBanner
    /\ bannerShown = FALSE
    /\ jbPollTimer = "null"
    /\ jbInitialized = FALSE
    /\ jbFetches = [k \in JBKinds |-> 0]
    /\ jbHideTimers = [j \in JobIds |-> 0]
    /\ jbLast = JBEvent("new", "", << >>)
    /\ jbHist = NewHist
    /\ jbClosed = ""

\* init(): create the banner, start the interval, check at once
jbInit ==
    /\ mounted = "JobStatusBanner"
    /\ ~jbInitialized
    /\ jbPollTimer' = "interval"
    /\ jbInitialized' = TRUE
    /\ LET k == checkActiveJobs(trackedJobs, activeBanner)
       IN  /\ jbFetches' = [jbFetches EXCEPT ![k] = @ + 1]
           /\ jbLast' = JBEvent("init", k, << >>)
    /\ UNCHANGED <<jbOptions, jbStorage, trackedJobs, activeBanner, bannerShown,
                   jbHideTimers, jbHist, jbClosed>>
    /\ UNCHANGED notJB

\* the interval fires: () => this.checkActiveJobs()
jbIntervalFires ==
    /\ mounted = "JobStatusBanner"
    /\ jbPollTimer = "interval"
    /\ JBInFlight < JBMaxInFlight
    /\ LET k == checkActiveJobs(trackedJobs, activeBanner)
       IN  /\ jbFetches' = [jbFetches EXCEPT ![k] = @ + 1]
           /\ jbLast' = JBEvent("checkActiveJobs", k, << >>)
    /\ UNCHANGED <<jbOptions, jbStorage, trackedJobs, activeBanner, bannerShown,
                   jbPollTimer, jbInitialized, jbHideTimers, jbHist, jbClosed>>
    /\ UNCHANGED notJB

\* fetchActiveJobs resolves: a listing, or 401/302 handled as an empty listing
jbListingArrives(kind, jobs) ==
    /\ mounted = "JobStatusBanner"
    /\ jbFetches["list"] > 0
    /\ kind \in {"ok", "401", "302"}
    /\ kind # "ok" => jobs = << >>
    /\ LET op == IF kind = "ok" THEN "listing" ELSE "listingAuth"
       IN  IF jobs # << >>
           THEN /\ trackedJobs' = trackAll(trackedJobs, jobs)
                /\ jbStorage' = saveToStorage(trackedJobs')
                /\ IF jobs[1].id # ""
                   THEN /\ jbFetches' = [jbFetches EXCEPT !["list"] = @ - 1,
                                                          ![jobs[1].id] = @ + 1]
                        /\ jbLast' = JBEvent(op, jobs[1].id, jobs)
                   ELSE /\ jbFetches' = [jbFetches EXCEPT !["list"] = @ - 1]
                        /\ jbLast' = JBEvent(op, "", jobs)
                /\ UNCHANGED <<activeBanner, bannerShown>>
           ELSE /\ jbFetches' = [jbFetches EXCEPT !["list"] = @ - 1]
                /\ activeBanner' = IF activeBanner # NoBanner
                                   THEN hideBanner.activeBanner ELSE activeBanner
                /\ bannerShown' = IF activeBanner # NoBanner
                                  THEN hideBanner.bannerShown ELSE bannerShown
                /\ jbLast' = JBEvent(op, "", jobs)
                /\ UNCHANGED <<trackedJobs, jbStorage>>
    /\ UNCHANGED <<jbOptions, jbPollTimer, jbInitialized, jbHideTimers, jbHist, jbClosed>>
    /\ UNCHANGED notJB

\* updateBanner(jobData) for data that carries an id
updateBanner(jobData) ==
    LET fresh == activeBanner = NoBanner \/ activeBanner.jobId # jobData.id
        banner == IF fresh
                  THEN [jobId |-> jobData.id, status |-> jobData.status,
                        completedTime |-> FALSE]
                  ELSE [activeBanner EXCEPT !.status = jobData.status]
        arm == jobData.status = "completed" /\ ~banner.completedTime
    IN  /\ trackedJobs' = trackJob(trackedJobs, jobData)
        /\ jbStorage' = saveToStorage(trackedJobs')
        /\ activeBanner' = [banner EXCEPT !.completedTime = @ \/ arm]
        /\ jbHideTimers' = IF arm THEN [jbHideTimers EXCEPT ![jobData.id] = @ + 1]
                           ELSE jbHideTimers
        /\ bannerShown' = TRUE
        /\ jbHist' =
              IF jobData.status # "completed"
              THEN [jbHist EXCEPT ![jobData.id] = "none"]
              ELSE IF jbHist[jobData.id] = "none"
                   THEN [jbHist EXCEPT ![jobData.id] = "seen"]
                   ELSE jbHist

\* fetchJobStatus(id) resolves with a 2xx answer carrying data
jbStatusArrives(id, data) ==
    /\ mounted = "JobStatusBanner"
    /\ jbFetches[id] > 0
    /\ JBPendingHides < JBMaxHideTimers
    /\ jbFetches' = [jbFetches EXCEPT ![id] = @ - 1]
    /\ IF data.id # ""
       THEN updateBanner(data)
       ELSE UNCHANGED <<trackedJobs, jbStorage, activeBanner, jbHideTimers,
                        bannerShown, jbHist>>
    /\ jbLast' = JBEvent("status", "", <<data>>)
    /\ UNCHANGED <<jbOptions, jbPollTimer, jbInitialized, jbClosed>>
    /\ UNCHANGED notJB

\* a request fails: network error, non-2xx answer, invalid JSON
jbRequestFails(k, kind) ==
    /\ mounted = "JobStatusBanner"
    /\ jbFetches[k] > 0
    /\ jbFetches' = [jbFetches EXCEPT ![k] = @ - 1]
    /\ jbLast' = JBEvent("failure", "", << >>)
    /\ UNCHANGED <<jbOptions, jbStorage, trackedJobs, activeBanner, bannerShown,
                   jbPollTimer, jbInitialized, jbHideTimers, jbHist, jbClosed>>
    /\ UNCHANGED notJB

\* the auto-hide timeout armed for job id fires
jbHideTimerFires(id) ==
    /\ mounted = "JobStatusBanner"
    /\ jbHideTimers[id] > 0
    /\ jbHideTimers' = [jbHideTimers EXCEPT ![id] = @ - 1]
    /\ IF activeBanner # NoBanner /\ activeBanner.jobId = id
       THEN /\ activeBanner' = hideBanner.activeBanner
            /\ bannerShown' = hideBanner.bannerShown
            /\ jbHist' = IF activeBanner.status = "completed"
                         THEN [jbHist EXCEPT ![id] = "hidden"]
                         ELSE jbHist
       ELSE UNCHANGED <<activeBanner, bannerShown, jbHist>>
    /\ jbLast' = JBEvent("hideTimer", "", << >>)
    /\ UNCHANGED <<jbOptions, jbStorage, trackedJobs, jbPollTimer, jbInitialized,
                   jbFetches, jbClosed>>
    /\ UNCHANGED notJB

\* the close button: hideBanner()
jbCloseClicked ==
    /\ mounted = "JobStatusBanner"
    /\ jbInitialized
    /\ activeBanner' = hideBanner.activeBanner
    /\ bannerShown' = hideBanner.bannerShown
    /\ jbLast' = JBEvent("close", "", << >>)
    /\ UNCHANGED <<jbOptions, jbStorage, trackedJobs, jbPollTimer, jbInitialized,
                   jbFetches, jbHideTimers, jbHist>>
    /\ jbClosed' = IF activeBanner # NoBanner THEN activeBanner.jobId ELSE jbClosed
    /\ UNCHANGED notJB

\* the page is loaded again: its requests and timers are gone and a new instance
\* is built from the stored record; late: more than an hour has passed
jbReload(late) ==
    /\ mounted = "JobStatusBanner"
    /\ jbStorage' = IF late THEN Aged(jbStorage) ELSE jbStorage
    /\ trackedJobs' = loadFromStorage(jbStorage')
    /\ activeBanner' = NoBanner
    /\ bannerShown' = FALSE
    /\ jbPollTimer' = "null"
    /\ jbInitialized' = FALSE
    /\ jbFetches' = [k \in JBKinds |-> 0]
    /\ jbHideTimers' = [j \in JobIds |-> 0]
    /\ jbLast' = JBEvent("reload", "", << >>)
    /\ jbHist' = NewHist
    /\ jbClosed' = ""
    /\ UNCHANGED jbOptions
    /\ UNCHANGED notJB

\* trackJob(jobData) applied to the tracked list
jbTrackJob(jobData) ==
    /\ mounted = "JobStatusBanner"
    /\ trackedJobs' = trackJob(trackedJobs, jobData)
    /\ jbStorage' = IF jobData.id = "" THEN jbStorage ELSE saveToStorage(trackedJobs')
    /\ jbLast' = JBEvent("trackJob", "", <<jobData>>)
    /\ UNCHANGED <<jbOptions, activeBanner, bannerShown, jbPollTimer, jbInitialized,
                   jbFetches, jbHideTimers, jbHist, jbClosed>>
    /\ UNCHANGED notJB

JBNext ==
    \/ jbInit
    \/ jbIntervalFires
    \/ \E kind \in {"ok", "401", "302"}, jobs \in JBListings :
          jbListingArrives(kind, jobs)
    \/ \E id \in JobIds : \E data \in JBStatusPayloads(id) : jbStatusArrives(id, data)
    \/ \E k \in JBKinds, kind \in {"network", "http", "json"} : jbRequestFails(k, kind)
    \/ \E id \in JobIds : jbHideTimerFires(id)
    \/ jbCloseClicked
    \/ \E late \in BOOLEAN : jbReload(late)

----------------------------------------------------------------------------

----------------------------------------------------------------------------
(* Column editor (core/static/js/column-definition.js) *)

\* the rows of the columns table as the server renders them
ColumnIds == {"1", "2"}

\* a page the editor runs in: the value of the hidden input csrfmiddlewaretoken
\* ("absent": the document has no such element), of the cookie csrftoken and
\* of the meta tag csrf-token ("" is absent), and whether the template set
\* window.generatedPrompt
CEPage(field, cookie, meta, prompt) ==
    [field |-> field, cookie |-> cookie, meta |-> meta, generatedPrompt |-> prompt]

CEPages ==
    { CEPage("form-token", "test-token", "", TRUE),
      CEPage("form-token", "test-token", "", FALSE),
      CEPage("absent", "test-token", "", TRUE),
      CEPage("absent", "", "", TRUE) }

\* document.querySelector('[name=csrfmiddlewaretoken]').value; reading value of
\* null throws a TypeError
csrfField(page) == IF page.field = "absent" THEN "TypeError" ELSE page.field

\* document.querySelector('[name=csrfmiddlewaretoken]')?.value; fetch sends the
\* header value undefined as the string undefined
csrfFieldOptional(page) == IF page.field = "absent" THEN "undefined" ELSE page.field

\* #column-form after form.reset() and column-id = ''
FormDefaults ==
    [id |-> "", name |-> "", description |-> "", category |-> "demographics",
     include_confidence |-> "null", order |-> ""]

\* what the user types into the form
FormInputs ==
    { [name |-> "Age", include_confidence |-> "on", order |-> o] : o \in {"", "2"} }

\* the first cell of a row
RowName(id) == IF id = "1" THEN "Age" ELSE "Sex"

\* columnData of saveColumn
columnData(form) ==
    [id |-> IF form.id = "" THEN "null" ELSE form.id,
     name |-> form.name,
     description |-> form.description,
     category |-> form.category,
     include_confidence |-> (form.include_confidence = "on")]

NoBody == [none |-> TRUE]

\* a fetch: url, method, the X-CSRFToken header, the JSON body, the row a
\* delete is for, and what runs when the promise of the call settles
Request(kind, url, token, body, row, then) ==
    [kind |-> kind, method |-> "POST", url |-> url, token |-> token,
     body |-> body, row |-> row, then |-> then]

saveUrl == <<"/save-columns/">>

deleteUrl(columnId) == <<"/columns/delete/", columnId, "/">>

applyUrl == <<"/apply-default-columns/">>

savePromptUrl == <<"/save-prompt/">>

\* the values the three variable inputs hold together: the ones the template
\* renders ("") and two the user enters
VariableValues == {"", "flu", "flu, adults"}

\* the page of the prompt variables lets the user change them; the other
\* pages of the model leave them as rendered
CESlices == {"ColumnEditor", "PromptPreview"}

VariableChoices == IF mounted = "PromptPreview" THEN VariableValues ELSE {""}

\* the prompt the server generates for the variables of a generate_prompt
\* request
TemplateFor(variables) ==
    CASE variables = "" -> "template"
      [] variables = "flu" -> "template for flu"
      [] variables = "flu, adults" -> "template for flu, adults"

\* the fetch of updateGeneratedPrompt()
refreshRequest(page, variables, then) ==
    Request("refresh", saveUrl, csrfFieldOptional(page),
            [action |-> "generate_prompt", variables |-> variables], "", then)

\* what a fetch settles with: a network error, a non-2xx answer (its body is
\* not read), a 2xx answer that is not JSON, or a JSON answer
Response(kind, status, statusText, success, error, prompt) ==
    [kind |-> kind, status |-> status, statusText |-> statusText,
     success |-> success, error |-> error, prompt_template |-> prompt]

NoResponse == Response("none", "", "", FALSE, "", "")

Responses ==
    { Response("answer", "200", "OK", TRUE, "", "template"),
      Response("answer", "200", "OK", TRUE, "", ""),
      Response("answer", "200", "OK", FALSE, "boom", ""),
      Response("answer", "200", "OK", FALSE, "", ""),
      Response("http", "400", "Bad Request", FALSE, "boom", ""),
      Response("network", "", "", FALSE, "", ""),
      Response("json", "200", "OK", FALSE, "", "") }

\* error.message of what the first then of a fetch chain, or fetch, throws
thrownMessage(response) ==
    CASE response.kind = "http" ->
             <<"HTTP error ", response.status, ": ", response.statusText>>
      [] response.kind = "network" -> <<"Failed to fetch">>
      [] response.kind = "json" -> <<"Unexpected end of JSON input">>

\* data.error || fallback
errorOr(response, fallback) ==
    IF response.error # "" THEN <<response.error>> ELSE <<fallback>>

succeeded(response) == response.kind = "answer" /\ response.success

Remove(seq, i) == SubSeq(seq, 1, i - 1) \o SubSeq(seq, i + 1, Len(seq))

\* what the last handler did: the row it was invoked on, the answer of
\* confirm(), the requests it sent, the alerts it showed, the response it
\* handled, whether it reloaded the page, the rows it removed
CEEvent(op, row, confirm, sent, alerts, response, reload, removed) ==
    [op |-> op, row |-> row, confirm |-> confirm, sent |-> sent,
     alerts |-> alerts, response |-> response, reload |-> reload,
     removed |-> removed]

\* initColumnDefinition(): the requests outstanding afterwards
initRequests(page, variables) ==
    IF page.generatedPrompt THEN << >>
    ELSE <<refreshRequest(page, variables, "none")>>

CEInit(page) ==
    /\ cePage = page
    /\ ceDocument = "loaded"
    /\ ceRows = ColumnIds
    /\ ceForm = FormDefaults
    /\ cePrompt = (IF page.generatedPrompt THEN "template" ELSE "")
    /\ ceEditing = ""
    /\ ceVariables = ""
    /\ ceRequests = initRequests(page, "")
    /\ ceLast = CEEvent("load", "", "none", initRequests(page, ""), << >>,
                        NoResponse, FALSE, {})

\* form.reset() and column-id = '' of openAddColumnModal: the fields return to
\* their defaults whatever they held
resetForm(form) == FormDefaults

\* openAddColumnModal()
openAddColumnModal ==
    /\ mounted = "ColumnEditor"
    /\ ceDocument = "loaded"
    /\ ceForm' = resetForm(ceForm)
    /\ ceEditing' = ""
    /\ ceLast' = CEEvent("openAddColumnModal", "", "none", << >>, << >>,
                         NoResponse, FALSE, {})
    /\ UNCHANGED <<cePage, ceDocument, ceRows, cePrompt, ceRequests>>
    /\ UNCHANGED ceVariables
    /\ UNCHANGED notCE

\* editColumn(row): the fields are filled from the row, then openAddColumnModal()
\* resets the form and clears column-id
editColumn(id) ==
    /\ mounted = "ColumnEditor"
    /\ ceDocument = "loaded"
    /\ id \in ceRows
    /\ LET filled == [ceForm EXCEPT !.id = id, !.name = RowName(id),
                                    !.description = "", !.include_confidence = "null"]
       IN  ceForm' = resetForm(filled)
    /\ ceEditing' = id
    /\ ceLast' = CEEvent("editColumn", id, "none", << >>, << >>,
                         NoResponse, FALSE, {})
    /\ UNCHANGED <<cePage, ceDocument, ceRows, cePrompt, ceRequests>>
    /\ UNCHANGED ceVariables
    /\ UNCHANGED notCE

\* the user types into the fields of the form
formInput(input) ==
    /\ mounted = "ColumnEditor"
    /\ ceDocument = "loaded"
    /\ ceForm' = [ceForm EXCEPT !.name = input.name,
                                !.include_confidence = input.include_confidence,
                                !.order = input.order]
    /\ ceForm' # ceForm
    /\ ceLast' = CEEvent("input", "", "none", << >>, << >>, NoResponse, FALSE, {})
    /\ UNCHANGED <<cePage, ceDocument, ceRows, cePrompt, ceEditing, ceRequests>>
    /\ UNCHANGED ceVariables
    /\ UNCHANGED notCE

\* a handler that sends the requests sent, or none when reading the token threw
CESend(op, row, confirm, sent) ==
    /\ Len(ceRequests) + Len(sent) <= CEMaxInFlight
    /\ ceRequests' = ceRequests \o sent
    /\ ceLast' = CEEvent(op, row, confirm, sent, << >>, NoResponse, FALSE, {})

\* saveColumn()
saveColumn ==
    /\ mounted = "ColumnEditor"
    /\ ceDocument = "loaded"
    /\ IF csrfField(cePage) = "TypeError"
       THEN CESend("saveColumn", "", "none", << >>)
       ELSE CESend("saveColumn", "", "none",
                   <<Request("save", saveUrl, csrfField(cePage),
                             [columns |-> <<columnData(ceForm)>>], "", "none")>>)
    /\ UNCHANGED <<cePage, ceDocument, ceRows, ceForm, cePrompt, ceEditing>>
    /\ UNCHANGED ceVariables
    /\ UNCHANGED notCE

\* deleteColumn(row); accepted is the answer of confirm()
deleteColumn(id, accepted) ==
    /\ mounted = "ColumnEditor"
    /\ ceDocument = "loaded"
    /\ id \in ceRows
    /\ IF ~accepted
       THEN CESend("deleteColumn", id, "declined", << >>)
       ELSE IF csrfField(cePage) = "TypeError"
            THEN CESend("deleteColumn", id, "accepted", << >>)
            ELSE CESend("deleteColumn", id, "accepted",
                        <<Request("delete", deleteUrl(id), csrfField(cePage),
                                  NoBody, id, "none")>>)
    /\ UNCHANGED <<cePage, ceDocument, ceRows, ceForm, cePrompt, ceEditing>>
    /\ UNCHANGED ceVariables
    /\ UNCHANGED notCE

\* applyDefaults(); accepted is the answer of confirm()
applyDefaults(accepted) ==
    /\ mounted = "ColumnEditor"
    /\ ceDocument = "loaded"
    /\ IF ~accepted
       THEN CESend("applyDefaults", "", "declined", << >>)
       ELSE IF csrfField(cePage) = "TypeError"
            THEN CESend("applyDefaults", "", "accepted", << >>)
            ELSE CESend("applyDefaults", "", "accepted",
                        <<Request("apply", applyUrl, csrfField(cePage),
                                  NoBody, "", "none")>>)
    /\ UNCHANGED <<cePage, ceDocument, ceRows, ceForm, cePrompt, ceEditing>>
    /\ UNCHANGED ceVariables
    /\ UNCHANGED notCE

\* an input or change event of one of the three variables, which then hold
\* variables: updateGeneratedPrompt()
variablesChanged(variables) ==
    /\ mounted \in CESlices
    /\ ceDocument = "loaded"
    /\ ceVariables' = variables
    /\ CESend("updateGeneratedPrompt", "", "none",
              <<refreshRequest(cePage, variables, "none")>>)
    /\ UNCHANGED <<cePage, ceDocument, ceRows, ceForm, cePrompt, ceEditing>>
    /\ UNCHANGED notCE

\* savePrompt()
savePrompt ==
    /\ mounted = "ColumnEditor"
    /\ ceDocument = "loaded"
    /\ IF cePrompt = ""
       THEN /\ ceLast' = CEEvent("savePrompt", "", "none", << >>,
                                 << <<"No prompt content to save">> >>,
                                 NoResponse, FALSE, {})
            /\ UNCHANGED ceRequests
       ELSE IF csrfField(cePage) = "TypeError"
            THEN CESend("savePrompt", "", "none", << >>)
            ELSE CESend("savePrompt", "", "none",
                        <<Request("savePrompt", savePromptUrl, csrfField(cePage),
                                  [content |-> cePrompt], "", "none")>>)
    /\ UNCHANGED <<cePage, ceDocument, ceRows, ceForm, cePrompt, ceEditing>>
    /\ UNCHANGED ceVariables
    /\ UNCHANGED notCE

\* variant: updateGeneratedPrompt(); location.reload()
onSuccessReloadsAtOnce == [then |-> "none", reloads |-> TRUE]

\* data.success of saveColumn and applyDefaults:
\* updateGeneratedPrompt().then(() => location.reload()); what is chained to
\* the refresh, and whether the handler itself reloads
onSuccess == [then |-> "reload", reloads |-> FALSE]

\* the then and catch handlers of saveColumn and of applyDefaults
mutationSettles(i, response, op, alerts) ==
    /\ mounted = "ColumnEditor"
    /\ ceDocument = "loaded"
    /\ IF succeeded(response)
       THEN /\ ceRequests' =
                   IF onSuccess.reloads THEN << >>
                   ELSE Append(Remove(ceRequests, i),
                               refreshRequest(cePage, ceVariables, onSuccess.then))
            /\ ceDocument' = IF onSuccess.reloads THEN "unloading" ELSE ceDocument
            /\ ceLast' = CEEvent(op, "", "none",
                                 <<refreshRequest(cePage, ceVariables, onSuccess.then)>>, << >>,
                                 response, onSuccess.reloads, {})
       ELSE /\ ceRequests' = Remove(ceRequests, i)
            /\ ceLast' = CEEvent(op, "", "none", << >>, <<alerts>>, response,
                                 FALSE, {})
            /\ UNCHANGED ceDocument
    /\ UNCHANGED <<cePage, ceRows, ceForm, cePrompt, ceEditing>>
    /\ UNCHANGED ceVariables
    /\ UNCHANGED notCE

\* the fetch of saveColumn settles
saveColumnSettles(i, response) ==
    /\ i \in 1..Len(ceRequests)
    /\ ceRequests[i].kind = "save"
    /\ mutationSettles(i, response, "saveSettled",
                       IF response.kind = "answer"
                       THEN errorOr(response, "Failed to save column")
                       ELSE thrownMessage(response))

\* the fetch of applyDefaults settles
applyDefaultsSettles(i, response) ==
    /\ i \in 1..Len(ceRequests)
    /\ ceRequests[i].kind = "apply"
    /\ mutationSettles(i, response, "applySettled",
                       <<"Failed to apply default columns: ">>
                       \o (IF response.kind = "answer"
                           THEN errorOr(response, "Failed to apply default columns")
                           ELSE thrownMessage(response)))

\* the fetch of deleteColumn settles
deleteColumnSettles(i, response) ==
    /\ mounted = "ColumnEditor"
    /\ ceDocument = "loaded"
    /\ i \in 1..Len(ceRequests)
    /\ ceRequests[i].kind = "delete"
    /\ IF succeeded(response)
       THEN /\ ceRows' = ceRows \ {ceRequests[i].row}
            /\ ceRequests' = Append(Remove(ceRequests, i),
                                    refreshRequest(cePage, ceVariables, "none"))
            /\ ceLast' = CEEvent("deleteSettled", ceRequests[i].row, "none",
                                 <<refreshRequest(cePage, ceVariables, "none")>>, << >>,
                                 response, FALSE, ceRows \cap {ceRequests[i].row})
       ELSE /\ ceRequests' = Remove(ceRequests, i)
            /\ ceLast' = CEEvent("deleteSettled", ceRequests[i].row, "none", << >>,
                                 <<IF response.kind = "answer"
                                   THEN errorOr(response, "Failed to delete column")
                                   ELSE thrownMessage(response)>>,
                                 response, FALSE, {})
            /\ UNCHANGED ceRows
    /\ UNCHANGED <<cePage, ceDocument, ceForm, cePrompt, ceEditing>>
    /\ UNCHANGED ceVariables
    /\ UNCHANGED notCE

\* data.prompt_template of the answer to a generate_prompt request: absent, or
\* the prompt generated for the variables the request carried
promptTemplate(request, response) ==
    IF response.prompt_template = "" THEN ""
    ELSE TemplateFor(request.body.variables)

\* the fetch of updateGeneratedPrompt settles; its catch handler makes the
\* promise resolve after a failure too, so a then(() => location.reload())
\* chained to it runs in both cases
updateGeneratedPromptSettles(i, response) ==
    /\ mounted \in CESlices
    /\ ceDocument = "loaded"
    /\ i \in 1..Len(ceRequests)
    /\ ceRequests[i].kind = "refresh"
    /\ LET reload == ceRequests[i].then = "reload"
           ok == succeeded(response) /\ response.prompt_template # ""
           alerts == IF ok THEN << >>
                     ELSE IF response.kind = "answer"
                          THEN <<errorOr(response, "Failed to generate prompt")>>
                          ELSE <<thrownMessage(response)>>
       IN  /\ cePrompt' = IF ok THEN promptTemplate(ceRequests[i], response)
                          ELSE cePrompt
           /\ ceRequests' = IF reload THEN << >> ELSE Remove(ceRequests, i)
           /\ ceDocument' = IF reload THEN "unloading" ELSE ceDocument
           /\ ceLast' = CEEvent("refreshSettled", "", "none", << >>, alerts,
                                response, reload, {})
    /\ UNCHANGED <<cePage, ceRows, ceForm, ceEditing>>
    /\ UNCHANGED ceVariables
    /\ UNCHANGED notCE

\* the fetch of savePrompt settles
savePromptSettles(i, response) ==
    /\ mounted = "ColumnEditor"
    /\ ceDocument = "loaded"
    /\ i \in 1..Len(ceRequests)
    /\ ceRequests[i].kind = "savePrompt"
    /\ ceRequests' = Remove(ceRequests, i)
    /\ ceLast' = CEEvent("savePromptSettled", "", "none", << >>,
                         <<IF succeeded(response)
                           THEN <<"Prompt saved successfully!">>
                           ELSE <<"Failed to save prompt: ">>
                                \o (IF response.kind = "answer"
                                    THEN errorOr(response, "Failed to save prompt")
                                    ELSE thrownMessage(response))>>,
                         response, FALSE, {})
    /\ UNCHANGED <<cePage, ceDocument, ceRows, ceForm, cePrompt, ceEditing>>
    /\ UNCHANGED ceVariables
    /\ UNCHANGED notCE

\* the reloaded document arrives with the rows the server has (those of the
\* view, or the default columns), and initColumnDefinition() runs
pageLoads(rows) ==
    /\ mounted = "ColumnEditor"
    /\ ceDocument = "unloading"
    /\ ceDocument' = "loaded"
    /\ ceRows' = rows
    /\ ceForm' = FormDefaults
    /\ cePrompt' = (IF cePage.generatedPrompt THEN "template" ELSE "")
    /\ ceEditing' = ""
    /\ ceRequests' = initRequests(cePage, ceVariables)
    /\ ceLast' = CEEvent("load", "", "none", initRequests(cePage, ceVariables), << >>,
                         NoResponse, FALSE, {})
    /\ UNCHANGED cePage
    /\ UNCHANGED ceVariables
    /\ UNCHANGED notCE

CENext ==
    \/ openAddColumnModal
    \/ \E id \in ColumnIds : editColumn(id)
    \/ \E input \in FormInputs : formInput(input)
    \/ saveColumn
    \/ \E id \in ColumnIds, accepted \in BOOLEAN : deleteColumn(id, accepted)
    \/ \E accepted \in BOOLEAN : applyDefaults(accepted)
    \/ \E variables \in VariableChoices : variablesChanged(variables)
    \/ savePrompt
    \/ \E i \in 1..CEMaxInFlight, response \in Responses :
           \/ saveColumnSettles(i, response)
           \/ applyDefaultsSettles(i, response)
           \/ deleteColumnSettles(i, response)
           \/ updateGeneratedPromptSettles(i, response)
           \/ savePromptSettles(i, response)
    \/ \E rows \in {ceRows, ColumnIds} : pageLoads(rows)

----------------------------------------------------------------------------
\* the instances a behaviour does not follow are left as their defaults build them
SUDefault == SUInit([pollInterval |-> DefaultPollInterval, maxRetries |-> DefaultMaxRetries])

JBDefault == JBInit([maxTrackedJobs |-> DefaultMaxTrackedJobs], Stored("absent", << >>))

CEDefault == CEInit(CEPage("form-token", "test-token", "", TRUE))

Init ==
    \/ /\ mounted = "StatusUpdater"
       /\ \E options \in SUOptionChoices : SUInit(options)
       /\ JPInit
       /\ JBDefault
       /\ CEDefault
    \/ /\ mounted = "StatusDisplay"
       /\ SUDefault
       /\ JPInit
       /\ JBDefault
       /\ CEDefault
    \/ /\ mounted = "JobProgress"
       /\ SUDefault
       /\ JPInit
       /\ JBDefault
       /\ CEDefault
    \/ /\ mounted = "JobStatusBanner"
       /\ SUDefault
       /\ JPInit
       /\ \E options \in JBOptionChoices :
              \E stored \in JBStoredChoices(options) : JBInit(options, stored)
       /\ CEDefault

Next == SUNext \/ JPNext \/ JBNext

Spec == Init /\ [][Next]_vars

\* the renderers of StatusUpdater: one instance, one poll chain, answers that
\* carry every status, the texts of processing_details and the counts
RenderInit ==
    /\ mounted = "StatusRender"
    /\ SUDefault
    /\ JPInit
    /\ JBDefault
    /\ CEDefault

RenderNext ==
    \/ \E jobId \in SUJobs \cup {""} : startPolling(jobId)
    \/ stopPolling
    \/ pollTimerFires(TRUE)
    \/ \E j \in SUJobs, data \in SUAnswers : pollSucceeds(j, data)
    \/ truncationDismissed
    \/ handleContinueProcessing
    \/ \E outcome \in {"success", "refused", "failure"} : continueSettles(outcome)

RenderSpec == RenderInit /\ [][RenderNext]_vars

\* the column editor in each of its pages
EditorInit ==
    /\ mounted = "ColumnEditor"
    /\ SUDefault
    /\ JPInit
    /\ JBDefault
    /\ \E page \in CEPages : CEInit(page)

EditorSpec == EditorInit /\ [][CENext]_vars

\* the prompt variables and the refresh requests of the column editor page
PreviewInit ==
    /\ mounted = "PromptPreview"
    /\ SUDefault
    /\ JPInit
    /\ JBDefault
    /\ \E page \in CEPages : CEInit(page)

PreviewNext ==
    \/ \E variables \in VariableChoices : variablesChanged(variables)
    \/ \E i \in 1..CEMaxInFlight, response \in Responses :
           updateGeneratedPromptSettles(i, response)

PreviewSpec == PreviewInit /\ [][PreviewNext]_vars

\* the phase visualization of JobProgress, on pages that have any of the six
\* phase elements
PhaseInit ==
    /\ mounted = "PhaseDisplay"
    /\ SUDefault
    /\ \E elements \in SUBSET { JPPhaseNames[i] : i \in 1..Len(JPPhaseNames) } :
           JPConstructed(elements)
    /\ JBDefault
    /\ CEDefault

PhaseNext == \E phase \in JPPhaseInputs : phaseDisplayed(phase)

PhaseSpec == PhaseInit /\ [][PhaseNext]_vars

\* trackJob as a function of the tracked list: the job ids and the caps it is
\* applied with
TrackIds == {"a", "b", "c", "d", "e", "f"}

TrackJobs ==
    { Job(id, "processing", "none") : id \in TrackIds \cup {""} }
    \cup { Job("a", "completed", "recent") }

TrackInit ==
    /\ mounted = "JobStatusBanner"
    /\ SUDefault
    /\ JPInit
    /\ \E m \in {1, 2, DefaultMaxTrackedJobs} :
          JBInit([maxTrackedJobs |-> m], Stored("absent", << >>))
    /\ CEDefault

TrackNext == \E jobData \in TrackJobs : jbTrackJob(jobData)

TrackSpec == TrackInit /\ [][TrackNext]_vars

----------------------------------------------------------------------------
(* Properties *)

\* the fields of a StatusUpdater instance and what it has outstanding
suFields == <<suOptions, pollTimer, currentJobId, retryCount, lastStatus,
              processingError, suDisplay, suContinues, suFetches, suLeaked>>

\* C1: once a successful poll response carried a status in {completed, error,
\* failed, cancelled}, the StatusUpdater issues no further status fetch and has
\* no pending poll timer, until startPolling is called again.
C1_TerminalStatusStopsPolling ==
    suHist.terminal => SUPendingTimers = 0 /\ suLast.fetched = ""

\* C2: a StatusUpdater never has more than one poll cycle outstanding: at most
\* one status request in flight or one pending poll timer, never two.
C2_OnePollCycle == SUInFlight + SUPendingTimers <= 1

\* C3: after stopPolling() no status fetch is issued and no poll timer is armed
\* until the next startPolling, whatever was outstanding when it was called.
C3_StopPollingStops ==
    suHist.stopped => SUPendingTimers = 0 /\ suLast.fetched = ""

\* C4: the fetch failure that brings the retry counter to maxRetries shows the
\* fatal message, arms no timer and issues no request; a failure that leaves the
\* counter below maxRetries arms exactly one retry timer and issues no request.
\* In a run of one startPolling and only failing fetches at most maxRetries
\* requests are issued (no 7th with maxRetries = 5), and after the last failure
\* nothing is outstanding.
C4_FailureStep ==
    retryCount' = retryCount + 1 =>
        /\ SUInFlight' = SUInFlight - 1
        /\ IF retryCount' >= suOptions.maxRetries
           THEN /\ SUPendingTimers' = SUPendingTimers
                /\ pollTimer' = pollTimer
                /\ processingError' = [display |-> "block", text |-> FatalMessage]
           ELSE /\ SUPendingTimers' = SUPendingTimers + 1
                /\ pollTimer'.st = "pending"
                /\ processingError' = processingError

C4_FailingRun ==
    suHist.run >= 0 =>
        /\ suHist.run <= suOptions.maxRetries
        /\ (suOptions.maxRetries = 5 => suHist.run < 7)
        /\ (retryCount >= suOptions.maxRetries =>
                SUInFlight = 0 /\ SUPendingTimers = 0)

C4_RetryLimit == [][C4_FailureStep /\ C4_FailingRun']_vars

\* C4 witness: with maxRetries = 5, the fifth failing fetch of a run of only
\* failing fetches has made the poller give up.
C4_Witness ==
    /\ suOptions.maxRetries = 5
    /\ suHist.run = 5
    /\ suLast.op = "failure"
    /\ retryCount = 5
    /\ processingError.text = FatalMessage

\* C5: the delay armed after the k-th consecutive failure is
\* min(30000, pollInterval * 2^k): non-decreasing, at most 30000, and with
\* pollInterval = 2000 the delays are 4000, 8000, 16000, 30000, 30000.
C5_BackoffDelays ==
    LET d == suHist.delays
        expected == <<4000, 8000, 16000, 30000, 30000>>
    IN  /\ \A k \in 1..Len(d) :
              /\ d[k] = Min(30000, suOptions.pollInterval * Pow2(k))
              /\ d[k] <= 30000
              /\ k > 1 => d[k - 1] <= d[k]
              /\ suOptions.pollInterval = 2000 /\ k <= 5 => d[k] = expected[k]
        /\ suLast.op = "failure" /\ suLast.armed > 0 =>
              /\ Len(d) = retryCount
              /\ suLast.armed = d[Len(d)]
              /\ pollTimer = [st |-> "pending", delay |-> d[Len(d)]]

\* C5 witness: five consecutive failures with pollInterval = 2000 have each armed
\* a retry.
C5_Witness ==
    /\ suOptions.pollInterval = 2000
    /\ Len(suHist.delays) = 5
    /\ suLast.op = "failure"

\* C6: a successful fetch leaves the retry counter at 0 and, when polling goes
\* on, arms the next poll at pollInterval; the counter never exceeds the number
\* of failures since the last success, so the poller gives up only after
\* maxRetries failures with no success between them.
C6_SuccessResetsRetries ==
    /\ suLast.op = "success" =>
          /\ retryCount = 0
          /\ suLast.armed \in {0, suOptions.pollInterval}
          /\ suLast.armed > 0 =>
                pollTimer = [st |-> "pending", delay |-> suOptions.pollInterval]
    /\ retryCount <= suHist.failRun
    /\ suLast.op = "failure" /\ suLast.armed = 0 =>
          suHist.failRun >= suOptions.maxRetries

\* C6 witness: a success has cleared a counter that two failures had raised, and
\* the next poll is armed at pollInterval.
C6_Witness ==
    /\ suLast.op = "success"
    /\ suLast.reset >= 2
    /\ retryCount = 0
    /\ pollTimer = [st |-> "pending", delay |-> suOptions.pollInterval]

\* the fields of a JobProgress instance and what it has outstanding
jpFields == <<jpTimer, jpIsActive, jpPollCount, jpLastStatus, jpLastUpdated,
              jpDisplay, jpFetches>>

\* C7: for every 2xx response whose status is completed, error, failed or
\* cancelled, whatever else the payload carries, JobProgress renders the payload,
\* stops tracking (interval cleared, isActive false) and invokes onComplete.
C7_TerminalResponseCompletes ==
    jpLast.op = "response" /\ jpLast.data.status \in TerminalStatuses =>
        /\ jpDisplay = updateDisplay(jpLast.data)
        /\ jpLastStatus = jpLast.data.status
        /\ jpTimer = "null"
        /\ ~jpIsActive
        /\ jpLast.calls = <<"onUpdate", "onComplete">>

\* C8: JobProgress and JobStatusBanner each have at most one request in flight.
C8_OneRequestInFlight == jpFetches <= 1 /\ JBInFlight <= 1

\* C9: after stopPolling() (stopTracking()) the instance holds no timer; a second
\* consecutive call, or a call before polling was ever started, changes no
\* field of the instance.
C9_StopStep ==
    /\ suLast'.op = "stopPolling" =>
          /\ pollTimer' = [st |-> "null", delay |-> 0]
          /\ suLast.op \in {"new", "stopPolling"} => suFields' = suFields
    /\ jpLast'.op = "stopTracking" =>
          /\ jpTimer' = "null"
          /\ ~jpIsActive'
          /\ jpLast.op \in {"new", "stopTracking"} => jpFields' = jpFields

C9_StopIsIdempotent == [][C9_StopStep]_vars

\* C9 witness: stopPolling() has been called on a StatusUpdater that had armed
\* its next poll and rendered a status, and the instance holds no timer.
C9_Witness ==
    /\ suLast.op = "stopPolling"
    /\ lastStatus.status = "processing"
    /\ SUInFlight = 0
    /\ pollTimer = [st |-> "null", delay |-> 0]

\* C10: startPolling(jobId) with a non-empty jobId, from any state, leaves no
\* previously pending timer, binds currentJobId to jobId, sets the retry counter
\* to 0 and issues a status fetch for jobId at once; every later fetch is for
\* the bound job id.
C10_StartPolling ==
    /\ suLast.op = "startPolling" =>
          /\ SUPendingTimers = 0
          /\ currentJobId = suLast.fetched
          /\ currentJobId \in JobIds
          /\ retryCount = 0
          /\ suFetches[currentJobId] >= 1
    /\ suLast.fetched # "" => suLast.fetched = currentJobId

\* whether a job with the id is in the list, and the ids of a list
InList(id, list) == \E k \in 1..Len(list) : list[k].id = id

IdsOf(list) == { list[k].id : k \in 1..Len(list) }

\* C11: for a given job the hide timer is armed exactly once, at the first poll
\* that observes status completed, and not again by later polls of the same
\* completed job; once the hide timer has hidden the banner, later poll cycles do
\* not show the banner for that completed job again.
C11_Step ==
    \A id \in JobIds :
        /\ jbHideTimers'[id] > jbHideTimers[id] => jbHist[id] = "none"
        /\ jbHist[id] = "none" /\ jbHist'[id] = "seen" =>
              jbHideTimers'[id] = jbHideTimers[id] + 1
        /\ jbHist'[id] = "hidden" =>
              ~(bannerShown' /\ activeBanner'.jobId = id)

C11_AutoHideOnce == [][C11_Step]_vars

\* C12: after any sequence of trackJob calls the tracked list has at most
\* maxTrackedJobs entries and no two entries share an id; tracking a tracked id
\* updates that entry in place, position and length unchanged; tracking a new id
\* puts it at index 0 and, when the list was full, drops the entry at the end.
C12_Step ==
    jbLast'.op = "trackJob" =>
        LET job == jbLast'.input[1]
            old == trackedJobs
            new == trackedJobs'
            max == jbOptions.maxTrackedJobs
        IN  /\ Len(new) <= max
            /\ Cardinality(IdsOf(new)) = Len(new)
            /\ job.id = "" => new = old
            /\ job.id # "" /\ InList(job.id, old) =>
                  /\ Len(new) = Len(old)
                  /\ \A k \in 1..Len(old) :
                        IF old[k].id = job.id
                        THEN new[k].id = job.id /\ new[k].status = job.status
                        ELSE new[k] = old[k]
            /\ job.id # "" /\ ~InList(job.id, old) =>
                  /\ new[1] = job
                  /\ Len(old) < max => new = <<job>> \o old
                  /\ Len(old) = max => new = <<job>> \o SubSeq(old, 1, max - 1)

C12_TrackedList == [][C12_Step]_vars

\* C12 witness: with the default cap a job was tracked into a full list of five
\* and the list still has five entries, the new job first.
C12_Witness ==
    /\ jbLast.op = "trackJob"
    /\ jbOptions.maxTrackedJobs = 5
    /\ Len(trackedJobs) = 5
    /\ jbLast.input[1].id = "f"
    /\ trackedJobs[1].id = "f"
    /\ IdsOf(trackedJobs) = {"f", "e", "d", "c", "b"}

\* each checkActiveJobs issues exactly one request: the status of the job at
\* index 0 when the tracked list is non-empty, the listing when it is empty
C13_Request ==
    jbLast'.op \in {"init", "checkActiveJobs"} =>
        LET k == IF trackedJobs = << >> THEN "list" ELSE trackedJobs[1].id
        IN  /\ jbLast'.fetched = k
            /\ jbFetches' = [jbFetches EXCEPT ![k] = @ + 1]

\* C13: each checkActiveJobs issues exactly one request, the status of the job at
\* index 0 of a non-empty tracked list and the listing otherwise; every job with an
\* id in the returned active_jobs is in the tracked list afterwards.
C13_AdoptAll ==
    jbLast'.op = "listing" =>
        \A i \in 1..Len(jbLast'.input) :
            jbLast'.input[i].id # "" => InList(jbLast'.input[i].id, trackedJobs')

C13_AdoptCapped ==
    jbLast'.op = "listing" /\ jbLast'.input # << >> =>
        LET jobs == jbLast'.input
            listed == { jobs[i].id : i \in 1..Len(jobs) } \ {""}
            fresh == listed \ IdsOf(trackedJobs)
            max == jbOptions.maxTrackedJobs
        IN  IF Len(trackedJobs) + Cardinality(fresh) <= max
            THEN /\ listed \subseteq IdsOf(trackedJobs')
                 /\ Len(trackedJobs') = Len(trackedJobs) + Cardinality(fresh)
            ELSE /\ Len(trackedJobs') = max
                 /\ jobs[Len(jobs)].id # "" => InList(jobs[Len(jobs)].id, trackedJobs')

C14_Step ==
    jbLast'.op = "listingAuth" =>
        /\ trackedJobs' = trackedJobs
        /\ jbStorage' = jbStorage
        /\ ~bannerShown'
        /\ activeBanner' = NoBanner
        /\ jbLast'.fetched = ""
        /\ jbFetches' = [jbFetches EXCEPT !["list"] = @ - 1]
        /\ jbHideTimers' = jbHideTimers
        /\ jbPollTimer' = "interval"
        /\ jbInitialized'

C14_AuthFailureIsEmptyListing == [][C14_Step]_vars

\* C14 witness: a 401/302 answer arrived while jobs were tracked, and the banner
\* is hidden with the interval armed.
C14_Witness ==
    /\ jbLast.op = "listingAuth"
    /\ trackedJobs # << >>
    /\ ~bannerShown
    /\ jbPollTimer = "interval"

\* C15: when the stored record is unparseable or its entries make loading throw,
\* the constructor completes with an empty tracked list and init starts polling
\* as with no record; when writing the record throws, the tracked list in memory
\* is as trackJob set it.
C15_Step ==
    /\ jbLast'.op = "reload" /\ jbStorage'.state \in {"corrupt", "malformed"} =>
          trackedJobs' = << >> /\ ~jbInitialized'
    /\ jbLast'.op = "init" /\ jbStorage.state \in {"corrupt", "malformed"} =>
          /\ trackedJobs' = << >>
          /\ jbInitialized'
          /\ jbPollTimer' = "interval"
          /\ jbLast'.fetched = "list"
          /\ jbFetches'["list"] = 1
    /\ jbLast'.op = "status" /\ jbStorage.state = "blocked"
           /\ jbLast'.input[1].id # "" =>
          LET job == jbLast'.input[1]
          IN  /\ jbStorage' = jbStorage
              /\ InList(job.id, trackedJobs')
              /\ \A k \in 1..Len(trackedJobs') :
                    trackedJobs'[k].id = job.id => trackedJobs'[k].status = job.status
              /\ IF InList(job.id, trackedJobs)
                 THEN Len(trackedJobs') = Len(trackedJobs)
                 ELSE trackedJobs'[1] = job

C15_StorageFailures == [][C15_Step]_vars

\* C15 witness: an instance built from an unusable record has an empty tracked
\* list and its init has armed the interval and requested the listing.
C15_Witness ==
    /\ jbLast.op = "init"
    /\ jbStorage.state \in {"corrupt", "malformed"}
    /\ trackedJobs = << >>
    /\ jbPollTimer = "interval"
    /\ jbFetches["list"] = 1

\* an entry the one-hour rule keeps
Fresh(job) == ~(job.status = "completed" /\ job.completed_at = "old")

\* C16: the record is written after every trackJob, and a new instance loads
\* exactly the saved list in the same order minus the entries that are completed
\* with completed_at more than one hour in the past, so the loaded list respects
\* the maxTrackedJobs cap.
C16_PersistenceRoundTrip ==
    /\ jbStorage.state # "blocked" /\ jbLast.op \in {"status", "listing"}
           /\ (\E i \in 1..Len(jbLast.input) : jbLast.input[i].id # "") =>
          jbStorage = Stored("record", trackedJobs)
    /\ jbLast.op = "reload" /\ jbStorage.state = "record" =>
          /\ trackedJobs = SelectSeq(jbStorage.trackedJobs, Fresh)
          /\ Len(trackedJobs) <= jbOptions.maxTrackedJobs

\* C16 witness: a new instance has loaded a saved list of two jobs and dropped
\* the one that completed more than an hour ago.
C16_Witness ==
    /\ jbLast.op = "reload"
    /\ jbStorage.state = "record"
    /\ Len(jbStorage.trackedJobs) = 2
    /\ Len(trackedJobs) = 1

Clamp(x, lo, hi) == IF x < lo THEN lo ELSE IF x > hi THEN hi ELSE x

\* C17: the progress bar width and aria-valuenow written by
\* StatusUpdater.updateProgressBar and by JobProgress.updateDisplay equal
\* clamp(progress_percent, 0, 100) of the status rendered, so they are always
\* within [0, 100].
C17_RendererClamp ==
    /\ suLast.op \in {"success", "startPolling"} =>
          /\ suDisplay.barWidth = Clamp(lastStatus.progress_percent, 0, 100)
          /\ suDisplay.ariaValueNow = Clamp(lastStatus.progress_percent, 0, 100)
    /\ jpLast.op = "response" /\ jpLast.calls # <<"onError">> =>
          /\ jpDisplay.barWidth = Clamp(jpLast.data.progress_percent, 0, 100)
          /\ jpDisplay.ariaValueNow = Clamp(jpLast.data.progress_percent, 0, 100)
    /\ suDisplay.barWidth \in 0..100 /\ suDisplay.ariaValueNow \in 0..100
    /\ jpDisplay.barWidth \in 0..100 /\ jpDisplay.ariaValueNow \in 0..100

\* C18: after updateStatus(data) the error element is visible if and only if
\* the status data carries a non-empty error or its status is error or failed; a
\* later status without error and with a non-failure status hides it again.
C18_ErrorBanner ==
    suLast.op \in {"success", "startPolling"} =>
        (processingError.display = "block"
            <=> \/ lastStatus.error # ""
                \/ lastStatus.status \in {"error", "failed"}
                \/ lastStatus.job \in {"error", "failed"})

\* C18 witness: a status without error and with status processing has hidden the
\* element that an earlier status had made show the error boom.
C18_Witness ==
    /\ suLast.op = "success"
    /\ lastStatus.status = "processing"
    /\ lastStatus.error = ""
    /\ processingError = [display |-> "none", text |-> "boom"]

\* C19: a rendered status with is_truncated truthy makes the truncation alert
\* visible; once visible it is hidden by no updateStatus, also when a later
\* status reports is_truncated false: only by the user's dismissal, by a
\* successful continue-processing request, or by the display reset of
\* startPolling.
C19_Step ==
    /\ suLast'.op = "success" /\ lastStatus'.is_truncated =>
          suDisplay'.truncationAlert = "block"
    /\ suDisplay.truncationAlert = "block" /\ suDisplay'.truncationAlert # "block" =>
          suLast'.op \in {"dismiss", "continueSuccess", "startPolling"}
    /\ suLast'.op \in {"dismiss", "continueSuccess", "startPolling"} =>
          suDisplay'.truncationAlert = "none"

C20_CaseCounter ==
    suLast.op \in {"success", "startPolling"} =>
        (suDisplay.caseCounter = "block" <=> lastStatus.total_case_count > 0)

\* the handlers that end with a call of updateStatus
Rendered(op) == op \in {"success", "startPolling"}

\* C21: rendering a status with status completed reveals the download control
\* and sets the badge to Completed with the success class; with
\* total_case_count = 12 the case counter is shown with the text 12; the
\* download control is revealed by the rendering of no other status.
C21_Step ==
    /\ Rendered(suLast'.op) /\ StatusData(lastStatus') = "completed" =>
          /\ suDisplay'.downloadButtons = "block"
          /\ suDisplay'.badgeText = "Completed"
          /\ "bg-success" \in suDisplay'.badgeClass
          /\ lastStatus'.total_case_count = 12 =>
                /\ suDisplay'.caseCounter = "block"
                /\ suDisplay'.caseCount = 12
    /\ suDisplay.downloadButtons # "block" /\ suDisplay'.downloadButtons = "block" =>
          Rendered(suLast'.op) /\ StatusData(lastStatus') = "completed"

C21_CompletedScenario == [][C21_Step]_vars

\* C21 witness: the status completed with total_count 5 and total_case_count 12
\* has been rendered.
C21_Witness ==
    /\ suLast.op = "success"
    /\ lastStatus.status = "completed"
    /\ lastStatus.total_count = 5
    /\ lastStatus.total_case_count = 12
    /\ suDisplay.downloadButtons = "block"
    /\ suDisplay.caseCount = 12

\* the raw status with its first letter capitalized
Capitalized(status) ==
    CASE status = "pending" -> "Pending"
      [] status = "in_progress" -> "In_progress"
      [] status = "processing" -> "Processing"
      [] status = "waiting" -> "Waiting"
      [] status = "extracting" -> "Extracting"
      [] status = "initializing" -> "Initializing"
      [] status = "completed" -> "Completed"
      [] status = "error" -> "Error"
      [] status = "failed" -> "Failed"
      [] status = "cancelled" -> "Cancelled"

\* the lookup table of the badge as the claim C22 states it
BadgeTable(status) ==
    CASE status = "pending" -> [text |-> "Pending", class |-> "bg-warning"]
      [] status \in {"in_progress", "processing"} ->
             [text |-> "Processing", class |-> "bg-primary"]
      [] status = "waiting" -> [text |-> "Waiting", class |-> "bg-info"]
      [] status = "extracting" -> [text |-> "Extracting", class |-> "bg-info"]
      [] status = "completed" -> [text |-> "Completed", class |-> "bg-success"]
      [] status \in {"error", "failed"} -> [text |-> "Error", class |-> "bg-danger"]
      [] status = "cancelled" -> [text |-> "Cancelled", class |-> "bg-secondary"]
      [] OTHER -> [text |-> Capitalized(status), class |-> "bg-secondary"]

\* C22: for every status value, updateStatusBadge sets the text and the class
\* of the badge per the table: pending -> Pending/warning; in_progress and
\* processing -> Processing/primary; waiting -> Waiting/info; extracting ->
\* Extracting/info; completed -> Completed/success; error and failed ->
\* Error/danger; cancelled -> Cancelled/secondary; any other status -> the raw
\* status with its first letter capitalized, class secondary.
C22_BadgeTable ==
    Rendered(suLast.op) /\ StatusData(lastStatus) \in Statuses =>
        /\ suDisplay.badgeText = BadgeTable(StatusData(lastStatus)).text
        /\ BadgeTable(StatusData(lastStatus)).class \in suDisplay.badgeClass

\* the position of a phase in this.phases
RECURSIVE PhaseIndex(_, _)
PhaseIndex(phase, i) ==
    IF i > Len(phases) THEN 0
    ELSE IF phases[i] = phase THEN i ELSE PhaseIndex(phase, i + 1)

\* the first phase of the list, from position i on, whose name occurs in the text
RECURSIVE FirstListed(_, _)
FirstListed(details, i) ==
    IF i > Len(phases) THEN "initializing"
    ELSE IF phases[i] \in details THEN phases[i] ELSE FirstListed(details, i + 1)

\* the phase derivation as the claim C23 states it
ListedPhase(data) ==
    IF data.current_phase # "" THEN data.current_phase
    ELSE FirstListed(data.processing_details, 1)

\* the last indicator, in the order of the page, that carries the class active
LastActive(active) ==
    LET idx == { i \in 1..Len(phases) : phases[i] \in active }
    IN  IF idx = {} THEN "none"
        ELSE phases[CHOOSE i \in idx : \A k \in idx : k <= i]

\* C23: the phase updateProcessingPhase highlights up to is the explicit
\* current_phase of the payload when it has one; otherwise the first phase of
\* [initializing, preparing, sending, extracting, processing, completed] whose
\* name occurs in processing_details; initializing when nothing matches.
C23_PhaseDerivation ==
    Rendered(suLast.op) => LastActive(suDisplay.activeSteps) = ListedPhase(lastStatus)

\* C24: after every updateStatus, with the step indicators in the order
\* [initializing, preparing, sending, extracting, processing, completed],
\* exactly the indicators at or before the index of the current phase (the
\* phase updateProcessingPhase derived from the status) carry the class active
\* and no later one does, also after the phase has moved backwards.
C24_PhaseHighlighting ==
    Rendered(suLast.op) =>
        suDisplay.activeSteps =
            { phases[i] : i \in 1..PhaseIndex(currentPhase(lastStatus), 1) }

\* C24 witness: a status of the phase preparing has been rendered after a
\* completed status, which had every indicator active.
C24_Witness ==
    /\ suLast.op = "success"
    /\ suDisplay.downloadButtons = "block"
    /\ lastStatus.processing_details = {"preparing"}
    /\ suDisplay.activeSteps = {"initializing", "preparing"}

\* C25: calling updateStatus twice in a row with the same payload leaves the
\* display (progress width and aria value, counters, badge text and class,
\* active step indicators, visibility of the case counter, the error banner,
\* the truncation banner and the download control) as the first call left it.
C25_RendererIdempotent ==
    Rendered(suLast.op) =>
        /\ updateStatus(suDisplay, lastStatus) = suDisplay
        /\ checkForErrors(processingError, lastStatus) = processingError

\* C25 witness: a truncated status has been rendered on a display whose case
\* counter and download control an earlier status had revealed.
C25_Witness ==
    /\ suLast.op = "success"
    /\ lastStatus.is_truncated
    /\ suDisplay.truncationAlert = "block"
    /\ suDisplay.caseCounter = "block"
    /\ suDisplay.downloadButtons = "block"

\* the handlers that handle the answer of a save, a delete or an apply-defaults
MutationSettled(op) == op \in {"saveSettled", "deleteSettled", "applySettled"}

\* C26: after a successful Save or Apply Defaults response exactly one
\* prompt-refresh request is sent and the page is not reloaded yet; the page is
\* reloaded only by the step that settles that refresh request, so the reload
\* neither precedes nor overlaps it; a save or apply-defaults response that
\* reports a failure reloads nothing.
C26_Step ==
    /\ ceLast'.op \in {"saveSettled", "applySettled"} =>
          /\ ~ceLast'.reload
          /\ ceDocument' = "loaded"
          /\ IF succeeded(ceLast'.response)
             THEN /\ Len(ceLast'.sent) = 1
                  /\ ceLast'.sent[1].kind = "refresh"
                  /\ \E k \in 1..Len(ceRequests') :
                         ceRequests'[k] = ceLast'.sent[1]
             ELSE ceLast'.sent = << >>
    /\ ceDocument = "loaded" /\ ceDocument' = "unloading" =>
          /\ ceLast'.op = "refreshSettled"
          /\ ceLast'.reload
          /\ \E k \in 1..Len(ceRequests) :
                 ceRequests[k].kind = "refresh" /\ ceRequests[k].then = "reload"
    /\ ceLast'.reload => ceDocument' = "unloading"

C26_RefreshThenReload == [][C26_Step]_vars

\* C26 witness: the refresh request sent after a successful save has settled
\* with a failure, and the page is being reloaded.
C26_Witness ==
    /\ ceLast.op = "refreshSettled"
    /\ ceLast.response.kind = "network"
    /\ ceLast.reload
    /\ ceDocument = "unloading"

\* C27: Delete and Apply Defaults ask for confirmation and send no request when
\* the user declines; an accepted Delete sends one POST that carries the
\* anti-forgery token to the delete endpoint of the row's column id; a row is
\* removed from the view only by the handler of a successful answer to its
\* delete request.
C27_ConfirmationGating ==
    /\ ceLast.op \in {"deleteColumn", "applyDefaults"} =>
          ceLast.confirm \in {"accepted", "declined"}
    /\ ceLast.confirm = "declined" => ceLast.sent = << >>
    /\ ceLast.op = "deleteColumn" /\ ceLast.confirm = "accepted" =>
          /\ Len(ceLast.sent) = 1
          /\ ceLast.sent[1].method = "POST"
          /\ ceLast.sent[1].url = <<"/columns/delete/", ceLast.row, "/">>
          /\ ceLast.sent[1].token \notin {"", "undefined"}
    /\ ceLast.removed # {} =>
          /\ ceLast.op = "deleteSettled"
          /\ succeeded(ceLast.response)
          /\ ceLast.removed = {ceLast.row}

\* a message contains a string
Contains(message, string) == \E k \in 1..Len(message) : message[k] = string

\* C28: when a Save, a Delete or an Apply Defaults fails (a non-2xx answer, a
\* network error, an answer with success false) the user is shown one message,
\* which contains the error string of the server, no request is sent again, the
\* page is not reloaded, no prompt refresh is sent and no row is removed.
C28_MutationFailure ==
    MutationSettled(ceLast.op) /\ ~succeeded(ceLast.response) =>
        /\ Len(ceLast.alerts) = 1
        /\ ceLast.response.error # "" =>
              Contains(ceLast.alerts[1], ceLast.response.error)
        /\ ceLast.sent = << >>
        /\ ~ceLast.reload
        /\ ceDocument = "loaded"
        /\ ceLast.removed = {}

\* the token as the claim C29 states it: the cookie csrftoken, or the meta tag
\* csrf-token when the cookie is absent
CookieOrMeta(page) == IF page.cookie # "" THEN page.cookie ELSE page.meta

\* C29: every mutating request of the column editor (save column, delete
\* column, apply defaults, prompt refresh, save prompt) carries the X-CSRFToken
\* header with the value of the cookie csrftoken, or of the meta tag csrf-token
\* when the cookie is absent; when there is no token the request is sent all
\* the same.
C29_CsrfHeader ==
    /\ \A k \in 1..Len(ceLast.sent) : ceLast.sent[k].token = CookieOrMeta(cePage)
    /\ \/ ceLast.op \in {"saveColumn", "updateGeneratedPrompt"}
       \/ ceLast.op \in {"deleteColumn", "applyDefaults"} /\ ceLast.confirm = "accepted"
       \/ ceLast.op = "savePrompt" /\ ceLast.alerts = << >>
       => Len(ceLast.sent) = 1

\* C30: saving an existing column sends one POST whose body is {columns: [c]}
\* with exactly one column c; c.id is the id of the edited column, and c carries
\* the order when one was entered.
C30_SaveBody ==
    ceLast.op = "saveColumn" /\ ceEditing # "" =>
        /\ Len(ceLast.sent) = 1
        /\ ceLast.sent[1].method = "POST"
        /\ DOMAIN ceLast.sent[1].body = {"columns"}
        /\ Len(ceLast.sent[1].body.columns) = 1
        /\ ceLast.sent[1].body.columns[1].id = ceEditing
        /\ ceForm.order # "" =>
              /\ "order" \in DOMAIN ceLast.sent[1].body.columns[1]
              /\ ceLast.sent[1].body.columns[1].order = ceForm.order

----------------------------------------------------------------------------
(* JobProgress: errors, completion and late responses *)

\* TRUE when the step settles one status request of JobProgress
JPSettles == jpFetches' < jpFetches

\* C31: JobProgress stops tracking because of polling errors only after more
\* than 10 consecutive failed polls: a failed poll that directly follows a
\* successful one leaves the tracking active, however many polls were made.
C31_FailureAfterSuccess ==
    [][(/\ jpIsActive
        /\ jpLast.op = "response"
        /\ jpLast.calls = <<"onUpdate">>
        /\ JPSettles
        /\ jpLast'.calls = <<"onError">>) => jpIsActive']_vars

\* C32: onComplete is invoked at most once per tracking session: when a
\* response has invoked onComplete and no startTracking has followed, the next
\* response does not invoke it again.
C32_OnCompleteOnce ==
    [][(/\ jpLast.op = "response"
        /\ Contains(jpLast.calls, "onComplete")
        /\ JPSettles) => ~Contains(jpLast'.calls, "onComplete")]_vars

\* C33: once tracking has stopped, a response that arrives later changes
\* nothing of the display and invokes none of onUpdate, onComplete, onError.
C33_NoLateResponse ==
    [][(~jpIsActive /\ JPSettles) =>
          /\ jpDisplay' = jpDisplay
          /\ jpLast'.calls = << >>]_vars

----------------------------------------------------------------------------
(* StatusUpdater: the retry counter *)

\* C34: in every reachable state of the StatusUpdater 0 <= retryCount <=
\* maxRetries, and whenever a poll timer is pending retryCount < maxRetries.
C34_RetryBounds ==
    /\ retryCount >= 0
    /\ retryCount <= suOptions.maxRetries
    /\ SUPendingTimers > 0 => retryCount < suOptions.maxRetries

\* C35: after a successful continue-processing response the StatusUpdater
\* fetches the status of the job again, also when polling had stopped on a
\* terminal status of the truncated job (the truncation alert is showing and
\* the last status ends the polling): when the response has been handled a
\* poll cycle is outstanding (a status request in flight or a poll timer
\* pending), since nothing else of the instance issues the next fetch.
C35_ContinueResumesPolling ==
    [][(/\ suContinues' < suContinues
        /\ suLast'.op = "continueSuccess"
        /\ suDisplay.truncationAlert = "block"
        /\ ~shouldContinuePolling(lastStatus))
            => SUInFlight' > 0 \/ SUPendingTimers' > 0]_vars

\* C39: the download control is visible only while the last rendered status
\* of the job bound by startPolling is completed; after startPolling binds a
\* job the control is hidden until a completed status of that job is rendered.
C39_DownloadOnlyWhenCompleted ==
    suDisplay.downloadButtons = "block" => StatusData(lastStatus) = "completed"

----------------------------------------------------------------------------
(* JobStatusBanner: the close button and the adoption of a listing *)

\* C36: after the user has closed the banner of a job, the banner is not shown
\* again for that job on a later poll cycle: when a cycle that began after the
\* close (its request is the only one in flight) is answered, the banner of
\* the closed job is not shown.
C36_ClosedStaysHidden ==
    [][(/\ jbClosed # ""
        /\ activeBanner = NoBanner
        /\ jbLast.op = "checkActiveJobs"
        /\ JBInFlight = 1
        /\ jbLast'.op = "status")
            => ~(bannerShown' /\ activeBanner'.jobId = jbClosed)]_vars

\* C37: when fetchActiveJobs has adopted a listing of several jobs, the job
\* whose status it requests for display (the first of active_jobs) is the
\* entry at index 0 of the tracked list, the one the following cycles poll.
C37_DisplayedIsFirstTracked ==
    (/\ jbLast.op = "listing"
     /\ Len(jbLast.input) > 1
     /\ jbLast.fetched # ""
     /\ InList(jbLast.fetched, trackedJobs)) => trackedJobs[1].id = jbLast.fetched

----------------------------------------------------------------------------
(* Column editor: the prompt preview *)

\* C38: with several prompt refresh requests in flight, once all of them have
\* settled the preview holds the template generated for the variables of the
\* request sent last, whatever the order of the responses: when the preview
\* holds that template and the last outstanding response arrives with a
\* template, the preview still holds the template of the values sent last.
C38_PreviewOfLatest ==
    [][(/\ ceLast'.op = "refreshSettled"
        /\ Len(ceRequests) = 1
        /\ ceRequests' = << >>
        /\ succeeded(ceLast'.response)
        /\ cePrompt = TemplateFor(ceVariables))
            => cePrompt' = TemplateFor(ceVariables)]_vars

----------------------------------------------------------------------------
(* JobProgress: the phase visualization *)

\* the phase shown for p: p itself, or initializing when p is not a phase
ShownPhase(p) == IF PhaseIndex(p, 1) = 0 THEN "initializing" ELSE p

\* C40: after updatePhaseDisplay(p) the element of p (of initializing when p is
\* not a phase) is phase-active, the elements of the phases before it in
\* [initializing, preparing, sending, extracting, processing, completed] are
\* phase-complete and those after it phase-pending.
C40_PhaseClasses ==
    jpPhases.phase # "none" =>
        \A name \in jpPhases.elements :
            jpPhases.classes[name] =
                IF name = ShownPhase(jpPhases.phase) THEN "phase-active"
                ELSE IF PhaseIndex(name, 1) < PhaseIndex(ShownPhase(jpPhases.phase), 1)
                     THEN "phase-complete"
                     ELSE "phase-pending"

====
